---- MODULE Spec2Model ----
(***************************************************************************)
(* Model of the misp-ddos-cli bulk pipeline:                               *)
(*   - src/src/misp_client.py   retry_with_backoff, MISPClient             *)
(*   - src/src/cli_bulk.py      BulkUploadCLI.upload_events                *)
(*   - src/src/csv_processor.py DDoSEventValidator, CSVProcessor           *)
(*   - src/main.py              bulk, with BulkUploadCLI.run               *)
(* Python strings are TLA+ strings; str.strip, str.split, str.lower, int   *)
(* and the character class of _sanitize_tag are                            *)
(* computed character by character; ipaddress (IPv6) and strptime are     *)
(* sets of sample strings.                                                 *)
(***************************************************************************)
EXTENDS Integers, Sequences, FiniteSets, TLC

VARIABLES
    \* ---- one direct call of MISPClient.create_ddos_event ----
    sub_pc,        \* "idle" | "ready" | "done"
    sub_kwargs,    \* keyword arguments of the call
    sub_script,    \* what the remote platform answers to the 1st, 2nd, 3rd add_event
    sub_result,    \* outcome of the call: a returned dict or a raised exception
    sub_again,     \* a second call that differs in workflow_state only, and its outcome
    max_retries,   \* self.max_retries of the client
    \* ---- the remote platform and the process, as the client sees them ----
    remote_log,    \* every add_event request made, in order
    sleeps,        \* every time.sleep(wait_time) made by the retry wrapper, in order
    \* ---- BulkUploadCLI.upload_events ----
    up_pc,         \* "idle" | "loop" | "break" | "returned" | "raised"
    events,        \* the list passed to upload_events
    continue_on_error,
    up_idx,        \* number of loop iterations started so far
    successful,
    failed,
    client_calls,  \* every call of self.client.create_ddos_event: index, script, outcome
    up_result,
    \* ---- CSVProcessor.process_csv ----
    csv_pc,        \* "idle" | "open" | "rows" | "returned" | "raised"
    file,          \* the lines of the file
    file_path,     \* what the filesystem answers about the path given
    skip_invalid,
    reader,        \* csv.DictReader state: fieldnames and the data lines not yet read
    row_idx,       \* idx of the row loop (enumerate(reader, start=2))
    valid_events,
    invalid_rows,
    total_rows,
    validated,     \* row numbers handed to validate_row, in order
    csv_result,
    \* ---- the bulk command of main.py and BulkUploadCLI.run ----
    cmd_pc,        \* "idle" | "parse" | "construct" | "run" | "validate" | "upload"
                   \* | "returned" | "exited"
    argv,          \* the options given on the command line
    options,       \* skip_invalid, continue_on_error and dry_run as click passes them
    run_result,    \* what BulkUploadCLI.run returned
    displayed,     \* the results handed to display_results, in order
    exit_code,     \* the status the process exited with
    interrupted,   \* where a KeyboardInterrupt arrived, "" if none did
    \* ---- single calls, each with the frame of the call as a record ----
    retry,         \* a call through retry_with_backoff(max_attempts, backoff_factor)
    construct,     \* MISPClient.__init__
    validation     \* CSVValidator.validate_row, and a second pass over its result

vars == << sub_pc, sub_kwargs, sub_script, sub_result, sub_again, max_retries,
           remote_log, sleeps,
           up_pc, events, continue_on_error, up_idx, successful, failed,
           client_calls, up_result,
           csv_pc, file, file_path, skip_invalid, reader, row_idx, valid_events,
           invalid_rows, total_rows, validated, csv_result,
           cmd_pc, argv, options, run_result, displayed, exit_code, interrupted,
           retry, construct, validation >>

sub_vars == << sub_pc, sub_kwargs, sub_script, sub_result, sub_again, max_retries >>

up_vars == << up_pc, events, continue_on_error, up_idx, successful, failed,
              client_calls, up_result >>

csv_vars == << csv_pc, file, file_path, skip_invalid, reader, row_idx, valid_events,
               invalid_rows, total_rows, validated, csv_result >>

cmd_vars == << cmd_pc, argv, options, run_result, displayed, exit_code, interrupted >>

unit_vars == << retry, construct, validation >>

-----------------------------------------------------------------------------
(* Bounds of the model *)

MaxEvents == 3

MaxLines == 4

\* the longest file given to the bulk command, in lines
MaxBulkLines == 3

-----------------------------------------------------------------------------
(* Python values *)

\* None where a list is expected: the code only tests such values for truth
NoneList == << >>

\* None where a string is expected (csv.DictReader's restval for a short line)
NoneStr == "<None>"

Range(s) == { s[i] : i \in DOMAIN s }

\* the classes an exception type is an instance of
ExceptionClasses(type) ==
    CASE type = "MISPValidationError" -> {type, "MISPClientError", "Exception"}
      [] type = "MISPConnectionError" -> {type, "MISPClientError", "Exception"}
      [] type = "MISPClientError"     -> {type, "Exception"}
      [] type = "PyMISPError"         -> {type, "Exception"}
      [] type = "RequestException"    -> {type, "Exception"}
      [] type = "CSVValidationError"  -> {type, "Exception"}
      [] type = "KeyboardInterrupt"   -> {type}
      [] OTHER                        -> {type, "Exception"}

IsInstance(exc, classes) == ExceptionClasses(exc.type) \cap classes # {}

\* an exception: its type, the fixed part of its message, the text of the
\* error it embeds (str(e)) and the type of its __cause__
Exc(type, text, inner, cause) ==
    [type |-> type, text |-> text, inner |-> inner, cause |-> cause]

\* str(e)
Str(exc) == IF exc.inner = "" THEN exc.text ELSE exc.text \o ": " \o exc.inner

Raise(exc) == [kind |-> "raise", exc |-> exc]

Return(value) == [kind |-> "return", value |-> value]

-----------------------------------------------------------------------------
(* Python strings *)

Char(s, i) == SubSeq(s, i, i)

Whitespace == {" ", "\t", "\n", "\r"}

RECURSIVE LStrip(_)
LStrip(s) ==
    IF Len(s) > 0 /\ Char(s, 1) \in Whitespace
    THEN LStrip(SubSeq(s, 2, Len(s)))
    ELSE s

RECURSIVE RStrip(_)
RStrip(s) ==
    IF Len(s) > 0 /\ Char(s, Len(s)) \in Whitespace
    THEN RStrip(SubSeq(s, 1, Len(s) - 1))
    ELSE s

\* str.strip()
Strip(s) == RStrip(LStrip(s))

\* s.startswith(prefix)
StartsWith(s, prefix) ==
    Len(s) >= Len(prefix) /\ SubSeq(s, 1, Len(prefix)) = prefix

UpperToLower ==
    [A |-> "a", B |-> "b", C |-> "c", D |-> "d", E |-> "e", F |-> "f", G |-> "g",
     H |-> "h", I |-> "i", J |-> "j", K |-> "k", L |-> "l", M |-> "m", N |-> "n",
     O |-> "o", P |-> "p", Q |-> "q", R |-> "r", S |-> "s", T |-> "t", U |-> "u",
     V |-> "v", W |-> "w", X |-> "x", Y |-> "y", Z |-> "z"]

LowerChar(c) == IF c \in DOMAIN UpperToLower THEN UpperToLower[c] ELSE c

RECURSIVE Lower(_)
\* str.lower()
Lower(s) ==
    IF Len(s) = 0 THEN s
    ELSE LowerChar(Char(s, 1)) \o Lower(SubSeq(s, 2, Len(s)))

RECURSIVE SplitFrom(_, _, _, _)
\* the pieces of s between occurrences of sep, scanning from position i with
\* the current piece starting at position start
SplitFrom(s, sep, start, i) ==
    IF i > Len(s) THEN << SubSeq(s, start, Len(s)) >>
    ELSE IF Char(s, i) = sep
         THEN << SubSeq(s, start, i - 1) >> \o SplitFrom(s, sep, i + 1, i + 1)
         ELSE SplitFrom(s, sep, start, i + 1)

\* str.split(sep) for a one-character separator
Split(s, sep) == SplitFrom(s, sep, 1, 1)

\* [x.strip() for x in s.split(";") if x.strip()]
StrippedParts(s) ==
    LET parts == Split(s, ";")
        stripped == [i \in DOMAIN parts |-> Strip(parts[i])]
    IN  SelectSeq(stripped, LAMBDA x : x # "")

Digits == {"0", "1", "2", "3", "4", "5", "6", "7", "8", "9"}

DigitValue ==
    [c \in Digits |->
        CASE c = "0" -> 0 [] c = "1" -> 1 [] c = "2" -> 2 [] c = "3" -> 3
          [] c = "4" -> 4 [] c = "5" -> 5 [] c = "6" -> 6 [] c = "7" -> 7
          [] c = "8" -> 8 [] c = "9" -> 9]

IsDigits(s) == Len(s) > 0 /\ \A i \in 1..Len(s) : Char(s, i) \in Digits

RECURSIVE DigitsValue(_)
DigitsValue(s) ==
    IF Len(s) = 0 THEN 0
    ELSE 10 * DigitsValue(SubSeq(s, 1, Len(s) - 1)) + DigitValue[Char(s, Len(s))]

\* int(s) succeeds: optional surrounding whitespace, optional sign, digits
IntParses(s) ==
    LET t == Strip(s) IN
    \/ IsDigits(t)
    \/ Len(t) > 1 /\ Char(t, 1) \in {"-", "+"} /\ IsDigits(SubSeq(t, 2, Len(t)))

\* int(s) where IntParses(s)
IntOf(s) ==
    LET t == Strip(s) IN
    IF Char(t, 1) = "-" THEN 0 - DigitsValue(SubSeq(t, 2, Len(t)))
    ELSE IF Char(t, 1) = "+" THEN DigitsValue(SubSeq(t, 2, Len(t)))
    ELSE DigitsValue(t)

\* ipaddress.IPv4Address: four decimal octets 0..255, at most 3 digits, no leading zero
IsIPv4Octet(o) ==
    /\ IsDigits(o)
    /\ Len(o) <= 3
    /\ (Len(o) > 1 => Char(o, 1) # "0")
    /\ DigitsValue(o) <= 255

IsIPv4(s) ==
    LET parts == Split(s, ".") IN
    Len(parts) = 4 /\ \A i \in 1..4 : IsIPv4Octet(parts[i])

\* the IPv6 addresses of the model (ipaddress.IPv6Address accepts them)
SampleIPv6 == {"::1", "2001:db8::1"}

\* ipaddress.ip_address(s) does not raise ValueError
IpAddressParses(s) == s \in SampleIPv6 \/ IsIPv4(s)

\* the date strings of the model that datetime.strptime accepts with
\* "%Y-%m-%d" or "%Y-%m-%d %H:%M:%S"
SampleDates == {"2024-01-15", "2024-01-15 10:30:00"}

StrptimeParses(s) == s \in SampleDates

DigitChars == << "0", "1", "2", "3", "4", "5", "6", "7", "8", "9" >>

RECURSIVE NatToStr(_)
\* str(n) for n >= 0
NatToStr(n) ==
    IF n < 10 THEN DigitChars[n + 1]
    ELSE NatToStr(n \div 10) \o DigitChars[(n % 10) + 1]

-----------------------------------------------------------------------------
(* src/src/misp_client.py : the remote platform behind self.client *)

\* what one add_event request can meet: the record is created, the platform
\* library raises PyMISPError, the transport raises requests.RequestException,
\* the answer is not an event (reading response.id raises AttributeError), or
\* the user interrupts the process while the request is in flight
RemoteOutcomes ==
    {"ok", "PyMISPError", "RequestException", "AttributeError", "KeyboardInterrupt"}

\* the network-class failures of a request
TransientOutcomes == {"PyMISPError", "RequestException"}

RemoteErrorText(outcome) ==
    CASE outcome = "PyMISPError"      -> "MISP server error"
      [] outcome = "RequestException" -> "Connection refused"
      [] outcome = "KeyboardInterrupt" -> ""
      [] OTHER                        -> "'dict' object has no attribute 'id'"

\* the requests that created a record
Created(log) == SelectSeq(log, LAMBDA r : r.answer = "ok")

\* the id and uuid the platform gives to the next record it creates
NextResponse(log) ==
    LET n == Len(Created(log)) + 1 IN
    [id |-> NatToStr(n), uuid |-> "uuid-" \o NatToStr(n)]

-----------------------------------------------------------------------------
(* src/src/misp_client.py : MISPClient *)

MANDATORY_INCIDENT_TAG == "information-security-indicators:incident-type=\"ddos\""

MANDATORY_EVENT_TYPE_TAG == "misp-event-type:incident"

LOCAL_WORKFLOW_TAG_PREFIX == "workflow:state="

MITRE_ATTACK_PATTERN == "mitre-attack-pattern:T1498"

MITRE_GALAXY_CLUSTER ==
    "misp-galaxy:mitre-attack-pattern=\"Network Denial of Service - T1498\""

VALID_TLP_LEVELS == << "clear", "green", "amber", "red" >>

VALID_ATTACK_TYPES == << "direct-flood", "amplification", "both" >>

\* self.url of the client of the model
ClientUrl == "https://misp.example.com"

\* MISPClient._validate_ip_address
ClientValidateIp(ip) == IpAddressParses(ip)

\* MISPClient._validate_port (port is an int)
ClientValidatePort(port) == 1 <= port /\ port <= 65535

Letters ==
    DOMAIN UpperToLower \cup { UpperToLower[c] : c \in DOMAIN UpperToLower }

\* the character class [a-zA-Z0-9:="\-_.] of _sanitize_tag
TagChars == Letters \cup Digits \cup {":", "=", "\"", "-", "_", "."}

\* re.match(r'^[a-zA-Z0-9:="\-_.]+$', s); $ also matches before one final newline
TagRegexMatches(s) ==
    LET body == IF Len(s) > 0 /\ Char(s, Len(s)) = "\n"
                THEN SubSeq(s, 1, Len(s) - 1) ELSE s
    IN  Len(body) > 0 /\ \A i \in 1..Len(body) : Char(body, i) \in TagChars

\* MISPClient._sanitize_tag
SanitizeTag(tag) ==
    LET sanitized == Strip(tag) IN
    IF ~TagRegexMatches(sanitized)
    THEN Raise(Exc("MISPValidationError", "Tag contains invalid characters", tag, ""))
    ELSE Return(sanitized)

\* the parameters of create_ddos_event after self
RequiredParams == {"event_name", "event_date", "attacker_ips", "victim_ip", "victim_port"}

DefaultParams ==
    [attacker_ports |-> NoneList, description |-> "", tlp |-> "green",
     workflow_state |-> "new", attack_type |-> "direct-flood"]

\* binding of func(*args, **kwargs) to the signature of create_ddos_event
BindArguments(kwargs) ==
    LET given == DOMAIN kwargs
        unexpected == given \ (RequiredParams \cup DOMAIN DefaultParams)
        missing == RequiredParams \ given
    IN  IF unexpected # {}
        THEN Raise(Exc("TypeError", "create_ddos_event() got an unexpected keyword argument", "", ""))
        ELSE IF missing # {}
        THEN Raise(Exc("TypeError", "create_ddos_event() missing required positional arguments", "", ""))
        ELSE Return([p \in RequiredParams \cup DOMAIN DefaultParams |->
                        IF p \in given THEN kwargs[p] ELSE DefaultParams[p]])

\* the input validation of create_ddos_event: the message of the first check
\* that fails, or "" when all pass
InputValidation(a) ==
    IF Strip(a.event_name) = ""
    THEN "Event name must be a non-empty string"
    ELSE IF Strip(a.event_date) = ""
    THEN "Event date must be a non-empty string"
    ELSE IF Len(a.attacker_ips) = 0
    THEN "Attacker IPs must be a non-empty list"
    ELSE IF ~ClientValidateIp(a.victim_ip)
    THEN "Invalid victim IP address"
    ELSE IF ~ClientValidatePort(a.victim_port)
    THEN "Invalid victim port"
    ELSE IF \E i \in DOMAIN a.attacker_ips : ~ClientValidateIp(a.attacker_ips[i])
    THEN "Invalid attacker IP address"
    ELSE IF Lower(a.tlp) \notin Range(VALID_TLP_LEVELS)
    THEN "Invalid TLP level"
    ELSE IF a.attack_type \notin Range(VALID_ATTACK_TYPES)
    THEN "Invalid attack type"
    ELSE ""

\* an event whose workflow tag follows the workflow_state argument
EventTags_WorkflowFromInput(a) ==
    << "tlp:" \o Lower(a.tlp),
       MANDATORY_INCIDENT_TAG,
       MANDATORY_EVENT_TYPE_TAG,
       MITRE_ATTACK_PATTERN,
       MITRE_GALAXY_CLUSTER,
       LOCAL_WORKFLOW_TAG_PREFIX \o a.workflow_state >>

\* the tags create_ddos_event adds to the event, in order
EventTags(a) ==
    << "tlp:" \o Lower(a.tlp),
       MANDATORY_INCIDENT_TAG,
       MANDATORY_EVENT_TYPE_TAG,
       MITRE_ATTACK_PATTERN,
       MITRE_GALAXY_CLUSTER,
       LOCAL_WORKFLOW_TAG_PREFIX \o "new" >>

\* the ip-port object of the idx-th attacker
AttackerObject(a, idx) ==
    [name |-> "ip-port",
     ip |-> a.attacker_ips[idx],
     dst_port |-> IF idx <= Len(a.attacker_ports) /\ ClientValidatePort(a.attacker_ports[idx])
                  THEN NatToStr(a.attacker_ports[idx]) ELSE "",
     text |-> "",
     comment |-> "Attacker IP " \o NatToStr(idx)]

\* the objects create_ddos_event adds to the event, in order
EventObjects(a) ==
    (IF a.description # ""
     THEN << [name |-> "annotation", ip |-> "", dst_port |-> "",
              text |-> a.description, comment |-> ""] >>
     ELSE << >>)
    \o [idx \in DOMAIN a.attacker_ips |-> AttackerObject(a, idx)]
    \o << [name |-> "ip-port", ip |-> a.victim_ip, dst_port |-> NatToStr(a.victim_port),
           text |-> "", comment |-> "Victim IP and Port"] >>

\* the MISPEvent create_ddos_event builds
BuildEvent(a) ==
    [info |-> a.event_name, date |-> a.event_date,
     tags |-> EventTags(a), objects |-> EventObjects(a)]

\* One invocation of the body of create_ddos_event.  script[k] is the answer
\* of the platform to the k-th request of this submission, n the number of
\* requests this submission has made, log the requests made so far.
CreateDdosEventBody(kwargs, script, n, log) ==
    LET bound == BindArguments(kwargs) IN
    IF bound.kind = "raise" THEN [res |-> bound, n |-> n, log |-> log]
    ELSE
    LET a == bound.value
        invalid == InputValidation(a)
    IN
    IF invalid # ""
    THEN [res |-> Raise(Exc("MISPValidationError", invalid, "", "")), n |-> n, log |-> log]
    ELSE
    LET answer == script[n + 1]
        response == NextResponse(log)
        sent == Append(log, [event |-> BuildEvent(a), answer |-> answer])
        res ==
            CASE answer = "ok" ->
                    Return([success |-> TRUE,
                            event_id |-> response.id,
                            event_uuid |-> response.uuid,
                            event_name |-> a.event_name,
                            url |-> ClientUrl \o "/events/view/" \o response.id])
              [] answer = "PyMISPError" ->
                    Raise(Exc("MISPConnectionError", "Failed to create event",
                              RemoteErrorText(answer), answer))
              [] answer = "KeyboardInterrupt" ->
                    Raise(Exc("KeyboardInterrupt", "", "", ""))
              [] OTHER ->
                    Raise(Exc("MISPClientError", "Unexpected error",
                              RemoteErrorText(answer), answer))
    IN  [res |-> res, n |-> n + 1, log |-> sent]

-----------------------------------------------------------------------------
(* src/src/misp_client.py : retry_with_backoff *)

\* @retry_with_backoff(max_attempts=3) on create_ddos_event
MAX_ATTEMPTS == 3

BACKOFF_FACTOR == 2

\* a wrapper that also retries the errors of the client itself
RETRY_EXCEPTIONS_WithClientErrors == {"RequestException", "PyMISPError", "MISPClientError"}

\* the default of the exceptions parameter
RETRY_EXCEPTIONS == {"RequestException", "PyMISPError"}

RECURSIVE Power(_, _)
Power(b, k) == IF k = 0 THEN 1 ELSE b * Power(b, k - 1)

NoException == Exc("None", "", "", "")

RECURSIVE RetryLoop(_, _, _, _, _)
\* the while loop of wrapper: st holds the requests (log, n) and sleeps made so
\* far and the number of invocations of the wrapped function
RetryLoop(kwargs, script, attempt, last_exception, st) ==
    IF ~(attempt < MAX_ATTEMPTS)
    THEN [res |-> IF last_exception # NoException THEN Raise(last_exception)
                  ELSE Return([success |-> FALSE]),
          st |-> st]
    ELSE
    LET body == CreateDdosEventBody(kwargs, script, st.n, st.log)
        st1 == [st EXCEPT !.n = body.n, !.log = body.log,
                          !.invocations = st.invocations + 1]
    IN
    IF body.res.kind = "return" THEN [res |-> body.res, st |-> st1]
    ELSE IF ~IsInstance(body.res.exc, RETRY_EXCEPTIONS)
    THEN [res |-> body.res, st |-> st1]
    ELSE
    LET e == body.res.exc
        attempt1 == attempt + 1
    IN
    IF attempt1 >= MAX_ATTEMPTS
    THEN [res |-> Raise(Exc("MISPConnectionError",
                            "Failed after " \o NatToStr(MAX_ATTEMPTS) \o " attempts",
                            Str(e), e.type)),
          st |-> st1]
    ELSE RetryLoop(kwargs, script, attempt1, e,
                   [st1 EXCEPT !.sleeps = Append(st1.sleeps, Power(BACKOFF_FACTOR, attempt1))])

\* client.create_ddos_event(**kwargs): the decorated method
CreateDdosEvent(kwargs, script, log, slept) ==
    RetryLoop(kwargs, script, 0, NoException,
              [n |-> 0, log |-> log, sleeps |-> slept, invocations |-> 0])

-----------------------------------------------------------------------------
(* src/src/csv_processor.py : DDoSEventValidator *)

REQUIRED_FIELDS == << "date", "event_name", "attacker_ips", "annotation_text" >>

OPTIONAL_FIELDS == << "tlp", "destination_ips", "destination_ports" >>

MAX_EVENT_NAME_LENGTH == 255

MAX_DESCRIPTION_LENGTH == 5000

MAX_ATTACKER_IPS == 1000

RECURSIVE JoinLines(_)
\* "\n".join(errors)
JoinLines(errors) ==
    IF Len(errors) = 0 THEN ""
    ELSE IF Len(errors) = 1 THEN errors[1]
    ELSE errors[1] \o "\n" \o JoinLines(Tail(errors))

\* DDoSEventValidator._validate_ip_address
ValidatorValidateIp(ip) == IpAddressParses(Strip(ip))

\* DDoSEventValidator._validate_port (port is a string)
ValidatorValidatePort(port) ==
    IntParses(port) /\ 1 <= IntOf(port) /\ IntOf(port) <= 65535

\* DDoSEventValidator._validate_date
ValidateDate(date_str) == StrptimeParses(Strip(date_str))

\* x.strip() on None
NoneStripError ==
    Exc("AttributeError", "'NoneType' object has no attribute 'strip'", "", "")

RowPrefix(row_number) == "Row " \o NatToStr(row_number) \o ": "

\* the errors of the required-field loop, in order
MissingRequired(row, row_number) ==
    LET missing == SelectSeq(REQUIRED_FIELDS,
                       LAMBDA f : f \notin DOMAIN row \/ Strip(row[f]) = "")
    IN  [i \in DOMAIN missing |->
            RowPrefix(row_number) \o "Missing required field '" \o missing[i] \o "'"]

\* the errors of the field checks that follow the required-field loop, in order
FieldErrors(row, row_number) ==
    LET pre == RowPrefix(row_number)
        event_name == Strip(row["event_name"])
        annotation_text == Strip(row["annotation_text"])
        date_str == Strip(row["date"])
        attacker_ips == StrippedParts(Strip(row["attacker_ips"]))
        has_dest == "destination_ips" \in DOMAIN row /\ Strip(row["destination_ips"]) # ""
        destination_ips == IF has_dest THEN StrippedParts(Strip(row["destination_ips"]))
                           ELSE << >>
        has_ports == "destination_ports" \in DOMAIN row
                     /\ Strip(row["destination_ports"]) # ""
        ports_list == IF has_ports THEN StrippedParts(Strip(row["destination_ports"]))
                      ELSE << >>
        tlp == Lower(Strip(IF "tlp" \in DOMAIN row THEN row["tlp"] ELSE "green"))
        bad_attackers == SelectSeq(attacker_ips, LAMBDA ip : ~ValidatorValidateIp(ip))
        bad_dests == SelectSeq(destination_ips, LAMBDA ip : ~ValidatorValidateIp(ip))
        bad_ports == SelectSeq(ports_list, LAMBDA q : ~ValidatorValidatePort(q))
    IN
       (IF Len(event_name) > MAX_EVENT_NAME_LENGTH
        THEN << pre \o "Event name exceeds " \o NatToStr(MAX_EVENT_NAME_LENGTH)
                    \o " characters" >>
        ELSE << >>)
    \o (IF Len(annotation_text) > MAX_DESCRIPTION_LENGTH
        THEN << pre \o "Annotation text exceeds " \o NatToStr(MAX_DESCRIPTION_LENGTH)
                    \o " characters" >>
        ELSE << >>)
    \o (IF ~ValidateDate(date_str)
        THEN << pre \o "Invalid date format. Use YYYY-MM-DD or YYYY-MM-DD HH:MM:SS" >>
        ELSE << >>)
    \o (IF Len(attacker_ips) = 0
        THEN << pre \o "No attacker IPs provided" >>
        ELSE IF Len(attacker_ips) > MAX_ATTACKER_IPS
        THEN << pre \o "Too many attacker IPs (max " \o NatToStr(MAX_ATTACKER_IPS) \o ")" >>
        ELSE << >>)
    \o [i \in DOMAIN bad_attackers |->
            pre \o "Invalid attacker IP address '" \o bad_attackers[i] \o "'"]
    \o (IF Len(destination_ips) > MAX_ATTACKER_IPS
        THEN << pre \o "Too many destination IPs (max " \o NatToStr(MAX_ATTACKER_IPS) \o ")" >>
        ELSE << >>)
    \o [i \in DOMAIN bad_dests |->
            pre \o "Invalid destination IP address '" \o bad_dests[i] \o "'"]
    \o [i \in DOMAIN bad_ports |->
            pre \o "Invalid destination port '" \o bad_ports[i] \o "'"]
    \o (IF tlp # "" /\ tlp \notin Range(VALID_TLP_LEVELS)
        THEN << pre \o "Invalid TLP level '" \o tlp \o "'. Must be one of "
                    \o "['clear', 'green', 'amber', 'red']" >>
        ELSE << >>)

\* a record whose date and time are joined by 'T', as ISO 8601 writes them
ValidatedRecord_IsoDate(row) ==
    LET ports_list == IF "destination_ports" \in DOMAIN row
                      THEN StrippedParts(Strip(row["destination_ports"])) ELSE << >>
        tlp == Lower(Strip(IF "tlp" \in DOMAIN row THEN row["tlp"] ELSE "green"))
        date_str == Strip(row["date"])
    IN  [event_name |-> Strip(row["event_name"]),
         event_date |-> IF Len(date_str) = 19
                        THEN SubSeq(date_str, 1, 10) \o "T" \o SubSeq(date_str, 12, 19)
                        ELSE date_str,
         attacker_ips |-> StrippedParts(Strip(row["attacker_ips"])),
         destination_ips |-> IF "destination_ips" \in DOMAIN row
                             THEN StrippedParts(Strip(row["destination_ips"]))
                             ELSE NoneList,
         destination_ports |-> [i \in DOMAIN ports_list |-> IntOf(ports_list[i])],
         annotation_text |-> Strip(row["annotation_text"]),
         tlp |-> IF tlp # "" THEN tlp ELSE "green"]

\* the dictionary validate_row returns for a row that passes every check
ValidatedRecord(row) ==
    LET ports_list == IF "destination_ports" \in DOMAIN row
                      THEN StrippedParts(Strip(row["destination_ports"])) ELSE << >>
        tlp == Lower(Strip(IF "tlp" \in DOMAIN row THEN row["tlp"] ELSE "green"))
    IN  [event_name |-> Strip(row["event_name"]),
         event_date |-> Strip(row["date"]),
         attacker_ips |-> StrippedParts(Strip(row["attacker_ips"])),
         destination_ips |-> IF "destination_ips" \in DOMAIN row
                             THEN StrippedParts(Strip(row["destination_ips"]))
                             ELSE NoneList,
         destination_ports |-> [i \in DOMAIN ports_list |-> IntOf(ports_list[i])],
         annotation_text |-> Strip(row["annotation_text"]),
         tlp |-> IF tlp # "" THEN tlp ELSE "green"]

\* DDoSEventValidator.validate_row.  A cell that is None makes the first
\* .strip() on it raise AttributeError: in the required-field loop for a
\* required column, after it for an optional column.
ValidateRow(row, row_number) ==
    LET is_none(f) == f \in DOMAIN row /\ row[f] = NoneStr
        missing == MissingRequired(row, row_number)
    IN
    IF \E i \in DOMAIN REQUIRED_FIELDS : is_none(REQUIRED_FIELDS[i])
    THEN Raise(NoneStripError)
    ELSE IF Len(missing) > 0
    THEN Raise(Exc("CSVValidationError", JoinLines(missing), "", ""))
    ELSE IF \E i \in DOMAIN OPTIONAL_FIELDS : is_none(OPTIONAL_FIELDS[i])
    THEN Raise(NoneStripError)
    ELSE
    LET errors == FieldErrors(row, row_number) IN
    IF Len(errors) > 0
    THEN Raise(Exc("CSVValidationError", JoinLines(errors), "", ""))
    ELSE Return(ValidatedRecord(row))

-----------------------------------------------------------------------------
(* src/src/csv_processor.py : CSVProcessor.process_csv *)

\* a filter that drops blank lines only
ContentLines_KeepsComments(lines) ==
    SelectSeq(lines, LAMBDA line : Strip(line) # "")

\* the lines the first loop keeps: not blank, not starting with '#'
ContentLines(lines) ==
    SelectSeq(lines, LAMBDA line : Strip(line) # "" /\ ~StartsWith(Strip(line), "#"))

\* the largest position of name in fieldnames (a later duplicate column wins)
LastIndexOf(fieldnames, name) ==
    CHOOSE i \in DOMAIN fieldnames :
        /\ fieldnames[i] = name
        /\ \A j \in DOMAIN fieldnames : fieldnames[j] = name => j <= i

\* the dictionary csv.DictReader yields for a line: a column without a cell is
\* None (restval); cells beyond the header go under the key None, which
\* validate_row never reads
DictRow(fieldnames, line) ==
    LET cells == Split(line, ",") IN
    [name \in Range(fieldnames) |->
        IF LastIndexOf(fieldnames, name) <= Len(cells)
        THEN cells[LastIndexOf(fieldnames, name)]
        ELSE NoneStr]

\* a header check that reports the first missing column only
MissingColumns_FirstOnly(fieldnames) ==
    LET missing == SelectSeq(REQUIRED_FIELDS, LAMBDA f : f \notin Range(fieldnames))
    IN  IF Len(missing) = 0 THEN missing ELSE << missing[1] >>

\* the names of the required columns the header lacks, as the message shows them
MissingColumns(fieldnames) ==
    SelectSeq(REQUIRED_FIELDS, LAMBDA f : f \notin Range(fieldnames))

RECURSIVE JoinNames(_)
JoinNames(names) ==
    IF Len(names) = 0 THEN ""
    ELSE IF Len(names) = 1 THEN "'" \o names[1] \o "'"
    ELSE "'" \o names[1] \o "', " \o JoinNames(Tail(names))

\* sub occurs in s
Contains(s, sub) ==
    \E i \in 1..(Len(s) - Len(sub) + 1) : SubSeq(s, i, i + Len(sub) - 1) = sub

\* a byte that is not part of any UTF-8 sequence, as the lines of the model
\* write it; the model puts such a byte at the start of a line only
InvalidByte == "\\xff"

\* the text-mode read of the file (encoding='utf-8') decodes every line
Utf8Decodes(lines) == \A i \in DOMAIN lines : ~StartsWith(lines[i], InvalidByte)

\* the UnicodeDecodeError of the read, wrapped by process_csv
EncodingError ==
    Exc("CSVValidationError", "File encoding error. Please ensure file is UTF-8 encoded",
        "'utf-8' codec can't decode byte 0xff: invalid start byte", "UnicodeDecodeError")

\* CSVProcessor() is built with max_file_size_mb = 10
MAX_FILE_SIZE_BYTES == 10 * 1024 * 1024

\* a size check that also turns away a file of exactly the largest size
ValidateFilePath_LimitExcluded(p) ==
    IF ~p.exists THEN Raise(Exc("FileNotFoundError", "File not found", "", ""))
    ELSE IF ~p.is_file THEN Raise(Exc("ValueError", "Not a file", "", ""))
    ELSE IF Lower(p.suffix) # ".csv" THEN Raise(Exc("ValueError", "Not a CSV file", "", ""))
    ELSE IF p.st_size >= MAX_FILE_SIZE_BYTES
    THEN Raise(Exc("ValueError", "File too large", "", ""))
    ELSE IF p.st_size = 0 THEN Raise(Exc("ValueError", "File is empty", "", ""))
    ELSE Return(p)

\* _validate_file_path: p is what exists(), is_file(), suffix and stat().st_size
\* answer for the resolved path; the messages are kept up to the path and the
\* sizes they go on to quote
ValidateFilePath(p) ==
    IF ~p.exists THEN Raise(Exc("FileNotFoundError", "File not found", "", ""))
    ELSE IF ~p.is_file THEN Raise(Exc("ValueError", "Not a file", "", ""))
    ELSE IF Lower(p.suffix) # ".csv" THEN Raise(Exc("ValueError", "Not a CSV file", "", ""))
    ELSE IF p.st_size > MAX_FILE_SIZE_BYTES
    THEN Raise(Exc("ValueError", "File too large", "", ""))
    ELSE IF p.st_size = 0 THEN Raise(Exc("ValueError", "File is empty", "", ""))
    ELSE Return(p)

\* process_csv up to the row loop: the path check, the comment filter, the
\* reader and the header checks
ProcessCsvOpen ==
    /\ csv_pc = "open"
    /\ LET path == ValidateFilePath(file_path)
           content == ContentLines(file)
           fieldnames == IF Len(content) = 0 THEN << >> ELSE Split(content[1], ",")
           missing_required == MissingColumns(fieldnames)
           failure ==
               IF path.kind = "raise" THEN path
               ELSE IF ~Utf8Decodes(file) THEN Raise(EncodingError)
               ELSE IF Len(fieldnames) = 0
               THEN Raise(Exc("CSVValidationError", "CSV file has no headers", "", ""))
               ELSE IF Len(missing_required) > 0
               THEN Raise(Exc("CSVValidationError", "CSV missing required columns",
                              "{" \o JoinNames(missing_required) \o "}", ""))
               ELSE Return(<< >>)
       IN  IF failure.kind = "raise"
           THEN /\ csv_pc' = "raised"
                /\ csv_result' = failure
                /\ UNCHANGED reader
           ELSE /\ csv_pc' = "rows"
                /\ reader' = [fieldnames |-> fieldnames, lines |-> Tail(content)]
                /\ UNCHANGED csv_result
    /\ UNCHANGED << file, file_path, skip_invalid, row_idx, valid_events, invalid_rows,
                    total_rows, validated >>
    /\ UNCHANGED << sub_vars, up_vars, cmd_vars, remote_log, sleeps, unit_vars >>

\* one iteration of the row loop of process_csv
ProcessCsvRow ==
    /\ csv_pc = "rows"
    /\ Len(reader.lines) > 0
    /\ LET idx == row_idx + 1
           row == DictRow(reader.fieldnames, Head(reader.lines))
           outcome == ValidateRow(row, idx)
       IN  /\ row_idx' = idx
           /\ total_rows' = total_rows + 1
           /\ reader' = [reader EXCEPT !.lines = Tail(reader.lines)]
           /\ validated' = Append(validated, idx)
           /\ IF outcome.kind = "return"
              THEN /\ valid_events' = Append(valid_events, outcome.value)
                   /\ UNCHANGED << invalid_rows, csv_pc, csv_result >>
              ELSE IF IsInstance(outcome.exc, {"CSVValidationError"})
              THEN /\ invalid_rows' = Append(invalid_rows, << idx, Str(outcome.exc) >>)
                   /\ UNCHANGED valid_events
                   /\ IF ~skip_invalid
                      THEN csv_pc' = "raised" /\ csv_result' = outcome
                      ELSE UNCHANGED << csv_pc, csv_result >>
              ELSE /\ csv_pc' = "raised"
                   /\ csv_result' = outcome
                   /\ UNCHANGED << valid_events, invalid_rows >>
    /\ UNCHANGED << file, file_path, skip_invalid >>
    /\ UNCHANGED << sub_vars, up_vars, cmd_vars, remote_log, sleeps, unit_vars >>

\* the end of process_csv once the reader is exhausted
ProcessCsvReturn ==
    /\ csv_pc = "rows"
    /\ Len(reader.lines) = 0
    /\ csv_pc' = "returned"
    /\ csv_result' = Return([valid_events |-> valid_events,
                             invalid_rows |-> invalid_rows,
                             total_rows |-> total_rows])
    /\ UNCHANGED << file, file_path, skip_invalid, reader, row_idx, valid_events, invalid_rows,
                    total_rows, validated >>
    /\ UNCHANGED << sub_vars, up_vars, cmd_vars, remote_log, sleeps, unit_vars >>

-----------------------------------------------------------------------------
(* src/src/cli_bulk.py : BulkUploadCLI.upload_events *)

\* the exception classes of the first except clause
CLIENT_ERRORS == {"MISPValidationError", "MISPConnectionError", "MISPClientError"}

\* event_data.get("event_name", f"Event {idx}")
EventNameOf(event_data, idx) ==
    IF "event_name" \in DOMAIN event_data THEN event_data["event_name"]
    ELSE "Event " \o NatToStr(idx)

\* reading result["event_id"] when the client returned no dictionary
NoneSubscriptError ==
    Exc("TypeError", "'NoneType' object is not subscriptable", "", "")

\* what the try block of one loop iteration ends with: the entry appended to
\* successful, or the exception that reaches the except clauses
TryUpload(event_name, call) ==
    IF call.res.kind = "raise" THEN call.res
    ELSE IF ~call.res.value.success THEN Raise(NoneSubscriptError)
    ELSE Return([event_name |-> event_name,
                 event_id |-> call.res.value.event_id,
                 event_uuid |-> call.res.value.event_uuid,
                 url |-> call.res.value.url])

\* the entry the except clauses append to failed
FailedEntry(event_name, exc, idx) ==
    [event_name |-> event_name,
     error |-> IF IsInstance(exc, CLIENT_ERRORS) THEN Str(exc)
               ELSE "Unexpected error: " \o Str(exc),
     event_index |-> idx]

\* a loop body with the first except clause only
CaughtByUpload_ClientErrorsOnly(exc) == IsInstance(exc, CLIENT_ERRORS)

\* the exceptions the two except clauses of the loop body catch
CaughtByUpload(exc) == IsInstance(exc, CLIENT_ERRORS) \/ IsInstance(exc, {"Exception"})

\* a loop that breaks on every failure
AfterFailure_AlwaysBreak(continue) == "break"

\* a loop that never breaks
AfterFailure_NeverBreak(continue) == "loop"

\* where the loop stands after an iteration that appended to failed
AfterFailure(continue) == IF ~continue THEN "break" ELSE "loop"

\* the answers the platform can be set to give to the requests of one record
UploadScripts ==
    { [k \in 1..MAX_ATTEMPTS |-> "ok"],
      << "PyMISPError", "RequestException", "ok" >>,
      [k \in 1..MAX_ATTEMPTS |-> "RequestException"],
      [k \in 1..MAX_ATTEMPTS |-> "KeyboardInterrupt"] }

\* one iteration of the for loop of upload_events
UploadEvent ==
    /\ up_pc = "loop"
    /\ up_idx < Len(events)
    /\ \E script \in UploadScripts :
         LET idx == up_idx + 1
             event_data == events[idx]
             event_name == EventNameOf(event_data, idx)
             call == CreateDdosEvent(event_data, script, remote_log, sleeps)
             outcome == TryUpload(event_name, call)
         IN  /\ up_idx' = idx
             /\ remote_log' = call.st.log
             /\ sleeps' = call.st.sleeps
             /\ client_calls' = Append(client_calls,
                                  [index |-> idx, script |-> script,
                                   requests |-> call.st.n,
                                   invocations |-> call.st.invocations,
                                   raised |-> IF call.res.kind = "raise"
                                              THEN call.res.exc.type ELSE ""])
             /\ IF outcome.kind = "return"
                THEN /\ successful' = Append(successful, outcome.value)
                     /\ UNCHANGED << failed, up_pc, up_result >>
                ELSE IF CaughtByUpload(outcome.exc)
                THEN /\ failed' = Append(failed, FailedEntry(event_name, outcome.exc, idx))
                     /\ up_pc' = AfterFailure(continue_on_error)
                     /\ UNCHANGED << successful, up_result >>
                ELSE /\ up_pc' = "raised"
                     /\ up_result' = outcome
                     /\ UNCHANGED << successful, failed >>
    /\ UNCHANGED << events, continue_on_error >>
    /\ UNCHANGED << sub_vars, csv_vars, cmd_vars, unit_vars >>

\* the return of upload_events, after the loop ended or was left by break
UploadReturn ==
    /\ \/ up_pc = "loop" /\ up_idx = Len(events)
       \/ up_pc = "break"
    /\ up_pc' = "returned"
    /\ up_result' = Return([total |-> Len(events),
                            successful |-> successful,
                            failed |-> failed])
    /\ UNCHANGED << events, continue_on_error, up_idx, successful, failed, client_calls >>
    /\ UNCHANGED << sub_vars, csv_vars, cmd_vars, remote_log, sleeps, unit_vars >>

-----------------------------------------------------------------------------
(* A direct call of MISPClient.create_ddos_event *)

Submit ==
    /\ sub_pc = "ready"
    /\ LET call == CreateDdosEvent(sub_kwargs, sub_script, remote_log, sleeps)
       IN  /\ sub_result' = [res |-> call.res, requests |-> call.st.n,
                             invocations |-> call.st.invocations]
           /\ remote_log' = call.st.log
           /\ sleeps' = call.st.sleeps
    /\ sub_pc' = "done"
    /\ UNCHANGED << sub_kwargs, sub_script, sub_again, max_retries >>
    /\ UNCHANGED << up_vars, csv_vars, cmd_vars, unit_vars >>

\* the values callers pass as workflow_state
WorkflowStates == {"new", "in-progress", "complete"}

\* the keyword arguments of a call with workflow_state set to ws
WithWorkflowState(kwargs, ws) ==
    [p \in DOMAIN kwargs \cup {"workflow_state"} |->
        IF p = "workflow_state" THEN ws ELSE kwargs[p]]

\* a second call of the client, against a platform that answers as it did to
\* the first, with the same arguments except workflow_state
SubmitAgain ==
    /\ sub_pc = "done"
    /\ \E ws \in WorkflowStates :
         LET kwargs == WithWorkflowState(sub_kwargs, ws)
             call == CreateDdosEvent(kwargs, sub_script, remote_log, sleeps)
         IN  /\ sub_again' = [res |-> call.res, workflow_state |-> ws,
                              first |-> Len(remote_log), requests |-> call.st.n]
             /\ remote_log' = call.st.log
             /\ sleeps' = call.st.sleeps
    /\ sub_pc' = "again"
    /\ UNCHANGED << sub_kwargs, sub_script, sub_result, max_retries >>
    /\ UNCHANGED << up_vars, csv_vars, cmd_vars, unit_vars >>

-----------------------------------------------------------------------------
(* src/main.py : bulk, and src/src/cli_bulk.py : BulkUploadCLI.run *)

\* the options click declares for the bulk command
DeclaredOptions == {"--skip-invalid", "--continue-on-error", "--dry-run"}

\* The value of continue_on_error when --continue-on-error is given.  The
\* option is a flag with default=True and no flag_value: click releases that
\* take "not default" as the flag value pass False, the others pass True.
ContinueFlagValues == BOOLEAN

\* the exit status of a click usage error
USAGE_ERROR == 2

\* what constructing MISPClient can end with: a client, a failed connection
\* test, the user's interrupt
ConstructOutcomes == {"ok", "MISPConnectionError", "KeyboardInterrupt"}

Interrupt == Exc("KeyboardInterrupt", "", "", "")

\* run() returned None
RunNone == [kind |-> "return_none"]

\* an exit status that treats every returned result as success
ExitCodeOf_IgnoresFailed(result, dry_run) ==
    IF result.kind = "return_none" THEN 1 ELSE 0

\* the exit status bulk derives from the result of run()
ExitCodeOf(result, dry_run) ==
    IF result.kind = "return_none" THEN 1
    ELSE IF ~dry_run /\ "failed" \in DOMAIN result.value /\ Len(result.value.failed) > 0
    THEN 1
    ELSE 0

\* click parses the options of the command line
BulkParse ==
    /\ cmd_pc = "parse"
    /\ IF argv \subseteq DeclaredOptions
       THEN /\ \E flag_value \in ContinueFlagValues :
                 options' = [skip_invalid |-> "--skip-invalid" \in argv,
                             continue_on_error |->
                                 IF "--continue-on-error" \in argv THEN flag_value ELSE TRUE,
                             dry_run |-> "--dry-run" \in argv]
            /\ cmd_pc' = "construct"
            /\ UNCHANGED exit_code
       ELSE /\ exit_code' = USAGE_ERROR
            /\ cmd_pc' = "exited"
            /\ UNCHANGED options
    /\ UNCHANGED << argv, run_result, displayed, interrupted >>
    /\ UNCHANGED << sub_vars, up_vars, csv_vars, remote_log, sleeps, unit_vars >>

\* bulk constructs the client; with a client, run() shows the banner and
\* enters validate_csv, which calls process_csv
BulkConstruct ==
    /\ cmd_pc = "construct"
    /\ \E outcome \in ConstructOutcomes :
         CASE outcome = "ok" ->
                /\ cmd_pc' = "validate"
                /\ csv_pc' = "open"
                /\ skip_invalid' = options.skip_invalid
                /\ UNCHANGED << exit_code, interrupted >>
           [] outcome = "MISPConnectionError" ->
                /\ cmd_pc' = "exited"
                /\ exit_code' = 1
                /\ UNCHANGED << csv_pc, skip_invalid, interrupted >>
           [] outcome = "KeyboardInterrupt" ->
                /\ cmd_pc' = "exited"
                /\ exit_code' = 130
                /\ interrupted' = "construct"
                /\ UNCHANGED << csv_pc, skip_invalid >>
    /\ UNCHANGED << argv, options, run_result, displayed >>
    /\ UNCHANGED << file, file_path, reader, row_idx, valid_events, invalid_rows, total_rows,
                    validated, csv_result >>
    /\ UNCHANGED << sub_vars, up_vars, remote_log, sleeps, unit_vars >>

\* the user interrupts the process while process_csv runs: no except clause
\* of process_csv or validate_csv catches KeyboardInterrupt
CsvInterrupt ==
    /\ cmd_pc = "validate"
    /\ csv_pc \in {"open", "rows"}
    /\ csv_pc' = "raised"
    /\ csv_result' = Raise(Interrupt)
    /\ UNCHANGED << file, file_path, skip_invalid, reader, row_idx, valid_events, invalid_rows,
                    total_rows, validated >>
    /\ UNCHANGED << sub_vars, up_vars, cmd_vars, remote_log, sleeps, unit_vars >>

\* a run() that, when a row stops the parse, uploads the records found before it
RunValidated_UploadsValidPrefix ==
    /\ cmd_pc = "validate"
    /\ csv_pc \in {"returned", "raised"}
    /\ IF csv_pc = "raised" /\ (Len(valid_events) = 0 \/ options.dry_run)
       THEN /\ run_result' = RunNone
            /\ cmd_pc' = "returned"
            /\ interrupted' = IF csv_result.exc.type = "KeyboardInterrupt"
                              THEN "validate" ELSE interrupted
            /\ UNCHANGED << up_pc, events, continue_on_error >>
       ELSE IF csv_pc = "raised"
       THEN /\ cmd_pc' = "upload"
            /\ up_pc' = "loop"
            /\ events' = valid_events
            /\ continue_on_error' = options.continue_on_error
            /\ UNCHANGED << run_result, interrupted >>
       ELSE LET validation_result == csv_result.value IN
            IF Len(validation_result.valid_events) = 0
            THEN /\ run_result' = RunNone
                 /\ cmd_pc' = "returned"
                 /\ UNCHANGED << up_pc, events, continue_on_error, interrupted >>
            ELSE IF options.dry_run
            THEN /\ run_result' = Return(validation_result)
                 /\ cmd_pc' = "returned"
                 /\ UNCHANGED << up_pc, events, continue_on_error, interrupted >>
            ELSE /\ cmd_pc' = "upload"
                 /\ up_pc' = "loop"
                 /\ events' = validation_result.valid_events
                 /\ continue_on_error' = options.continue_on_error
                 /\ UNCHANGED << run_result, interrupted >>
    /\ UNCHANGED << argv, options, displayed, exit_code >>
    /\ UNCHANGED << up_idx, successful, failed, client_calls, up_result >>
    /\ UNCHANGED << sub_vars, csv_vars, remote_log, sleeps, unit_vars >>

\* run() after validate_csv: the except clauses, the checks on the validation
\* result, the dry run, or the call of upload_events
RunValidated ==
    /\ cmd_pc = "validate"
    /\ csv_pc \in {"returned", "raised"}
    /\ IF csv_pc = "raised"
       THEN /\ run_result' = RunNone
            /\ cmd_pc' = "returned"
            /\ interrupted' = IF csv_result.exc.type = "KeyboardInterrupt"
                              THEN "validate" ELSE interrupted
            /\ UNCHANGED << up_pc, events, continue_on_error >>
       ELSE LET validation_result == csv_result.value IN
            IF Len(validation_result.valid_events) = 0
            THEN /\ run_result' = RunNone
                 /\ cmd_pc' = "returned"
                 /\ UNCHANGED << up_pc, events, continue_on_error, interrupted >>
            ELSE IF Len(validation_result.invalid_rows) > 0 /\ ~options.skip_invalid
            THEN /\ run_result' = RunNone
                 /\ cmd_pc' = "returned"
                 /\ UNCHANGED << up_pc, events, continue_on_error, interrupted >>
            ELSE IF options.dry_run
            THEN /\ run_result' = Return(validation_result)
                 /\ cmd_pc' = "returned"
                 /\ UNCHANGED << up_pc, events, continue_on_error, interrupted >>
            ELSE /\ cmd_pc' = "upload"
                 /\ up_pc' = "loop"
                 /\ events' = validation_result.valid_events
                 /\ continue_on_error' = options.continue_on_error
                 /\ UNCHANGED << run_result, interrupted >>
    /\ UNCHANGED << argv, options, displayed, exit_code >>
    /\ UNCHANGED << up_idx, successful, failed, client_calls, up_result >>
    /\ UNCHANGED << sub_vars, csv_vars, remote_log, sleeps, unit_vars >>

\* the user interrupts the process while the loop of upload_events runs:
\* neither except clause of the loop catches KeyboardInterrupt
UploadInterrupt ==
    /\ cmd_pc = "upload"
    /\ up_pc = "loop"
    /\ up_pc' = "raised"
    /\ up_result' = Raise(Interrupt)
    /\ UNCHANGED << events, continue_on_error, up_idx, successful, failed, client_calls >>
    /\ UNCHANGED << sub_vars, csv_vars, cmd_vars, remote_log, sleeps, unit_vars >>

\* run() after upload_events: display_results and the return of the results,
\* or the except clause for KeyboardInterrupt
RunUploaded ==
    /\ cmd_pc = "upload"
    /\ up_pc \in {"returned", "raised"}
    /\ IF up_pc = "returned"
       THEN /\ displayed' = Append(displayed, up_result.value)
            /\ run_result' = Return(up_result.value)
            /\ UNCHANGED interrupted
       ELSE /\ run_result' = RunNone
            /\ interrupted' = IF up_result.exc.type = "KeyboardInterrupt"
                              THEN "upload" ELSE interrupted
            /\ UNCHANGED displayed
    /\ cmd_pc' = "returned"
    /\ UNCHANGED << argv, options, exit_code >>
    /\ UNCHANGED << sub_vars, up_vars, csv_vars, remote_log, sleeps, unit_vars >>

\* bulk exits with the status it derives from the result of run()
BulkExit ==
    /\ cmd_pc = "returned"
    /\ exit_code' = ExitCodeOf(run_result, options.dry_run)
    /\ cmd_pc' = "exited"
    /\ UNCHANGED << argv, options, run_result, displayed, interrupted >>
    /\ UNCHANGED << sub_vars, up_vars, csv_vars, remote_log, sleeps, unit_vars >>

-----------------------------------------------------------------------------
(* The inputs of the model *)

\* keyword arguments in the signature of create_ddos_event
KwValid ==
    [event_name |-> "DDoS Attack on Web Server", event_date |-> "2024-01-15",
     attacker_ips |-> << "192.168.1.100", "192.168.1.101" >>,
     victim_ip |-> "10.0.0.50", victim_port |-> 443]

KwFull ==
    [event_name |-> "Flood", event_date |-> "2024-01-15 10:30:00",
     attacker_ips |-> << "::1" >>, victim_ip |-> "10.0.0.1", victim_port |-> 53,
     attacker_ports |-> << 80, 70000 >>, description |-> "Large-scale DDoS attack",
     tlp |-> "AMBER", workflow_state |-> "complete", attack_type |-> "both"]

KwBlankName == [KwValid EXCEPT !.event_name = "  "]

KwBadAttackerIp == [KwValid EXCEPT !.attacker_ips = << "192.168.1.100", "invalid_ip" >>]

KwBadVictimPort == [KwValid EXCEPT !.victim_port = 65536]

KwBadTlp == [KwFull EXCEPT !.tlp = "purple"]

KwBadAttackType == [KwFull EXCEPT !.attack_type = "reflection"]

KwBlankDate == [KwValid EXCEPT !.event_date = ""]

KwNoAttackers == [KwValid EXCEPT !.attacker_ips = << >>]

KwBadVictimIp == [KwValid EXCEPT !.victim_ip = "10.0.0.256"]

RECURSIVE Repeat(_, _)
\* s * n
Repeat(s, n) ==
    IF n = 0 THEN ""
    ELSE LET half == Repeat(s, n \div 2)
         IN  IF n % 2 = 0 THEN half \o half ELSE half \o half \o s

\* arguments the Row Validator rejects: a date in another form, a name of 256
\* characters, a text of 5001 characters
KwBadDate == [KwValid EXCEPT !.event_date = "15-01-2024"]

KwLongName == [KwValid EXCEPT !.event_name = Repeat("a", MAX_EVENT_NAME_LENGTH + 1)]

KwLongText == [KwFull EXCEPT !.description = Repeat("x", MAX_DESCRIPTION_LENGTH + 1)]

\* the lines of the batch files
HeaderLine == "date,event_name,attacker_ips,annotation_text,tlp"

ShortHeaderLine == "date,event_name"

DataLines ==
    { "2024-01-15,Test DDoS,192.168.1.100;192.168.1.101,Test attack,green",
      "2024-01-15 10:30:00, Flood ,::1; 10.0.0.1,Text,AMBER",
      "2024-01-15,Test,invalid_ip,Text,green",
      "15-01-2024,,10.0.0.256,Text,purple",
      "2024-01-15,Test,10.0.0.1,Text" }

\* a data line with a byte that is not UTF-8
UndecodableLine == InvalidByte \o "2024-01-15,Test,10.0.0.1,Text,green"

FileLines == {HeaderLine, ShortHeaderLine, "# comment"} \cup DataLines

\* files that hold a byte sequence that is not UTF-8: alone, after one line,
\* after a header and a data line
UndecodableFiles ==
    { << UndecodableLine >> }
    \cup { << line, UndecodableLine >> : line \in FileLines }
    \cup { << HeaderLine, line, UndecodableLine >> : line \in DataLines }

\* files with blank lines and comment lines around the header and between rows
SpacedFiles ==
    { << "# exported", "", HeaderLine, "",
         "2024-01-15,Test DDoS,192.168.1.100;192.168.1.101,Test attack,green",
         "  # indented note", "2024-01-15,Test,invalid_ip,Text,green", "   ",
         "2024-01-15 10:30:00, Flood ,::1; 10.0.0.1,Text,AMBER" >>,
      << HeaderLine, "", "", "2024-01-15,Test,invalid_ip,Text,green" >>,
      << "", "# c", HeaderLine, "15-01-2024,,10.0.0.256,Text,purple", "",
         "2024-01-15,Test DDoS,192.168.1.100;192.168.1.101,Test attack,green" >> }

\* the file of test_process_csv_valid
VictimHeaderLine == "date,event_name,attack_type,attacker_ips,victim_ip,victim_port,description"

VictimDataLine == "2024-01-15,Test DDoS,direct-flood,192.168.1.100,10.0.0.50,443,Test attack"

VictimSchemaFiles == { << VictimHeaderLine, VictimDataLine >> }

RECURSIVE FileSize(_)
\* the size of a file in bytes: its lines, each with its line end
FileSize(lines) ==
    IF Len(lines) = 0 THEN 0 ELSE Len(Head(lines)) + 1 + FileSize(Tail(lines))

\* what the filesystem answers about the path of a regular .csv file that
\* holds these lines
StatOf(lines) ==
    [exists |-> TRUE, is_file |-> TRUE, suffix |-> ".csv", st_size |-> FileSize(lines)]

\* paths of other kinds: nothing there, a directory, other suffixes, and sizes
\* around the largest one accepted
OtherPaths ==
    { [exists |-> FALSE, is_file |-> FALSE, suffix |-> sfx, st_size |-> 0] :
          sfx \in {".csv", ".txt"} }
    \cup { [exists |-> TRUE, is_file |-> FALSE, suffix |-> sfx, st_size |-> 4096] :
          sfx \in {".csv", ""} }
    \cup { [exists |-> TRUE, is_file |-> TRUE, suffix |-> sfx, st_size |-> n] :
          sfx \in {".csv", ".CSV", ".txt", ""},
          n \in {0, MAX_FILE_SIZE_BYTES - 1, MAX_FILE_SIZE_BYTES, MAX_FILE_SIZE_BYTES + 1} }

\* the lines read from such a path: none where there is no file or no byte;
\* a large file holds a header, one row and comment lines up to its size,
\* which the comment filter of process_csv drops
LinesAt(p) ==
    IF p.exists /\ p.is_file /\ p.st_size > 0
    THEN << HeaderLine,
            "2024-01-15,Test DDoS,192.168.1.100;192.168.1.101,Test attack,green" >>
    ELSE << >>

\* the rows of the model that the Row Validator accepts, as it returns them
ValidatorRecords ==
    LET rows == { DictRow(Split(HeaderLine, ","), line) : line \in DataLines }
        passing == { row \in rows : ValidateRow(row, 2).kind = "return" }
    IN  { ValidateRow(row, 2).value : row \in passing }

SubmitKwargs ==
    {KwValid, KwFull, KwBlankName, KwBadAttackerIp, KwBadVictimPort, KwBadTlp,
     KwBadAttackType, KwBlankDate, KwNoAttackers, KwBadVictimIp, KwBadDate,
     KwLongName, KwLongText} \cup ValidatorRecords

\* the values of MISP_MAX_RETRIES of the model; 3 is the default
ConfiguredRetries == {1, 2, 3}

DEFAULT_MAX_RETRIES == 3

UploadKwargs == {KwValid, KwBadAttackerIp} \cup ValidatorRecords

SeqsUpTo(S, n) == UNION { [1..k -> S] : k \in 0..n }

\* the lines of the files given to the bulk command: the header, a row that
\* passes, a row with an invalid address, a row with a cell missing
BulkFileLines ==
    { HeaderLine,
      "2024-01-15,Test DDoS,192.168.1.100;192.168.1.101,Test attack,green",
      "2024-01-15,Test,invalid_ip,Text,green",
      "2024-01-15,Test,10.0.0.1,Text" }

\* the options given to the bulk command
BulkCommandLines == SUBSET (DeclaredOptions \cup {"--no-continue-on-error"})

NoResult == [kind |-> "none"]

-----------------------------------------------------------------------------
(* Specifications *)

SubmitIdle ==
    /\ sub_pc = "idle"
    /\ sub_kwargs = KwValid
    /\ sub_script = [k \in 1..MAX_ATTEMPTS |-> "ok"]
    /\ sub_result = NoResult
    /\ sub_again = NoResult
    /\ max_retries = DEFAULT_MAX_RETRIES

UploadIdle ==
    /\ up_pc = "idle"
    /\ events = << >>
    /\ continue_on_error = TRUE
    /\ up_idx = 0
    /\ successful = << >>
    /\ failed = << >>
    /\ client_calls = << >>
    /\ up_result = NoResult

CsvIdle ==
    /\ csv_pc = "idle"
    /\ file = << >>
    /\ file_path = StatOf(<< >>)
    /\ skip_invalid = FALSE
    /\ reader = [fieldnames |-> << >>, lines |-> << >>]
    /\ row_idx = 1
    /\ valid_events = << >>
    /\ invalid_rows = << >>
    /\ total_rows = 0
    /\ validated = << >>
    /\ csv_result = NoResult

RetryIdle == retry = [pc |-> "idle"]

ConstructIdle == construct = [pc |-> "idle"]

ValidationIdle == validation = [pc |-> "idle"]

UnitIdle == RetryIdle /\ ConstructIdle /\ ValidationIdle

CmdIdle ==
    /\ cmd_pc = "idle"
    /\ argv = {}
    /\ options = [skip_invalid |-> FALSE, continue_on_error |-> TRUE, dry_run |-> FALSE]
    /\ run_result = NoResult
    /\ displayed = << >>
    /\ exit_code = -1
    /\ interrupted = ""

\* a client that is about to be called
InitSubmit ==
    /\ sub_pc = "ready"
    /\ sub_kwargs \in SubmitKwargs
    /\ sub_script \in [1..MAX_ATTEMPTS -> RemoteOutcomes]
    /\ sub_result = NoResult
    /\ sub_again = NoResult
    /\ max_retries \in ConfiguredRetries
    /\ remote_log = << >>
    /\ sleeps = << >>
    /\ UploadIdle
    /\ CsvIdle
    /\ CmdIdle
    /\ UnitIdle

NextSubmit == Submit \/ SubmitAgain

SpecSubmit == InitSubmit /\ [][NextSubmit]_vars

\* upload_events entered with a list of events, before its loop
InitUpload ==
    /\ up_pc = "loop"
    /\ events \in SeqsUpTo(UploadKwargs, MaxEvents)
    /\ continue_on_error \in BOOLEAN
    /\ up_idx = 0
    /\ successful = << >>
    /\ failed = << >>
    /\ client_calls = << >>
    /\ up_result = NoResult
    /\ remote_log = << >>
    /\ sleeps = << >>
    /\ SubmitIdle
    /\ CsvIdle
    /\ CmdIdle
    /\ UnitIdle

NextUpload == UploadEvent \/ UploadReturn

SpecUpload == InitUpload /\ [][NextUpload]_vars

\* process_csv entered with a file
InitCsv ==
    /\ csv_pc = "open"
    /\ \/ /\ file \in SeqsUpTo(FileLines, MaxLines) \cup UndecodableFiles
                       \cup SpacedFiles \cup VictimSchemaFiles
          /\ file_path = StatOf(file)
       \/ /\ file_path \in OtherPaths
          /\ file = LinesAt(file_path)
    /\ skip_invalid \in BOOLEAN
    /\ reader = [fieldnames |-> << >>, lines |-> << >>]
    /\ row_idx = 1
    /\ valid_events = << >>
    /\ invalid_rows = << >>
    /\ total_rows = 0
    /\ validated = << >>
    /\ csv_result = NoResult
    /\ remote_log = << >>
    /\ sleeps = << >>
    /\ SubmitIdle
    /\ UploadIdle
    /\ CmdIdle
    /\ UnitIdle

NextCsv == ProcessCsvOpen \/ ProcessCsvRow \/ ProcessCsvReturn

SpecCsv == InitCsv /\ [][NextCsv]_vars

\* the bulk command started on a file, before click parses its options
InitBulk ==
    /\ cmd_pc = "parse"
    /\ argv \in BulkCommandLines
    /\ options = [skip_invalid |-> FALSE, continue_on_error |-> TRUE, dry_run |-> FALSE]
    /\ run_result = NoResult
    /\ displayed = << >>
    /\ exit_code = -1
    /\ interrupted = ""
    /\ csv_pc = "idle"
    /\ file \in SeqsUpTo(BulkFileLines, MaxBulkLines)
    /\ file_path = StatOf(file)
    /\ skip_invalid = FALSE
    /\ reader = [fieldnames |-> << >>, lines |-> << >>]
    /\ row_idx = 1
    /\ valid_events = << >>
    /\ invalid_rows = << >>
    /\ total_rows = 0
    /\ validated = << >>
    /\ csv_result = NoResult
    /\ remote_log = << >>
    /\ sleeps = << >>
    /\ SubmitIdle
    /\ UploadIdle
    /\ UnitIdle

NextBulk ==
    \/ BulkParse
    \/ BulkConstruct
    \/ ProcessCsvOpen
    \/ ProcessCsvRow
    \/ ProcessCsvReturn
    \/ CsvInterrupt
    \/ RunValidated
    \/ UploadEvent
    \/ UploadReturn
    \/ UploadInterrupt
    \/ RunUploaded
    \/ BulkExit

SpecBulk == InitBulk /\ [][NextBulk]_vars

-----------------------------------------------------------------------------
(* src/src/misp_client.py : retry_with_backoff, for any max_attempts and
   backoff_factor *)

\* the largest max_attempts the wrapper is given
MaxConfiguredAttempts == 3

\* a wait that grows with the attempt but not as a power
BackoffWait_Linear(backoff_factor, attempt) == backoff_factor * attempt

\* wait_time = backoff_factor ** attempt
BackoffWait(backoff_factor, attempt) == Power(backoff_factor, attempt)

\* the two things the wrapper does that take time: it invokes the wrapped
\* function for the n-th time, it sleeps
Invoked(n) == [op |-> "call", n |-> n]

Slept(seconds) == [op |-> "sleep", seconds |-> seconds]

RECURSIVE WrapperLoop(_, _, _, _, _, _)
\* the while loop of wrapper around a function whose k-th invocation ends as
\* outcomes[k]; every iteration but the last ends in a retryable failure, so
\* the iteration entered with attempt failures behind it makes invocation
\* attempt + 1
WrapperLoop(max_attempts, backoff_factor, outcomes, attempt, last_exception, trace) ==
    IF ~(attempt < max_attempts)
    THEN [res |-> IF last_exception # NoException THEN Raise(last_exception)
                  ELSE Return(NoneStr),
          trace |-> trace]
    ELSE
    LET outcome == outcomes[attempt + 1]
        trace1 == Append(trace, Invoked(attempt + 1))
    IN
    IF outcome.kind = "return" THEN [res |-> outcome, trace |-> trace1]
    ELSE IF ~IsInstance(outcome.exc, RETRY_EXCEPTIONS)
    THEN [res |-> outcome, trace |-> trace1]
    ELSE
    LET e == outcome.exc
        attempt1 == attempt + 1
    IN
    IF attempt1 >= max_attempts
    THEN [res |-> Raise(Exc("MISPConnectionError",
                            "Failed after " \o NatToStr(max_attempts) \o " attempts",
                            Str(e), e.type)),
          trace |-> trace1]
    ELSE WrapperLoop(max_attempts, backoff_factor, outcomes, attempt1, e,
                     Append(trace1, Slept(BackoffWait(backoff_factor, attempt1))))

\* a call of a function decorated with
\* retry_with_backoff(max_attempts, backoff_factor)
RetryWithBackoff(max_attempts, backoff_factor, outcomes) ==
    WrapperLoop(max_attempts, backoff_factor, outcomes, 0, NoException, << >>)

\* how an invocation of the wrapped function can end: it returns, it fails
\* with an error of a retryable class, it fails with another error
FuncOutcomes ==
    { Return("done"),
      Raise(Exc("RequestException", "Connection refused", "", "")),
      Raise(Exc("PyMISPError", "MISP server error", "", "")),
      Raise(Exc("MISPValidationError", "Event name cannot be empty", "", "")),
      Raise(Exc("ValueError", "bad value", "", "")) }

BackoffFactors == {2, 3}

RetryCall ==
    /\ retry.pc = "ready"
    /\ LET call == RetryWithBackoff(retry.max_attempts, retry.backoff_factor, retry.outcomes)
       IN  retry' = [retry EXCEPT !.pc = "done", !.result = call.res, !.trace = call.trace]
    /\ UNCHANGED << construct, validation >>
    /\ UNCHANGED << sub_vars, up_vars, csv_vars, cmd_vars, remote_log, sleeps >>

\* a decorated function about to be called
InitRetry ==
    /\ retry \in [pc : {"ready"},
                  max_attempts : 0..MaxConfiguredAttempts,
                  backoff_factor : BackoffFactors,
                  outcomes : [1..MaxConfiguredAttempts -> FuncOutcomes],
                  result : {NoResult},
                  trace : {<< >>}]
    /\ ConstructIdle
    /\ ValidationIdle
    /\ remote_log = << >>
    /\ sleeps = << >>
    /\ SubmitIdle
    /\ UploadIdle
    /\ CsvIdle
    /\ CmdIdle

NextRetry == RetryCall

SpecRetry == InitRetry /\ [][NextRetry]_vars

-----------------------------------------------------------------------------
(* src/src/misp_client.py : MISPClient.__init__ and _test_connection *)

\* str(n) for an integer
IntToStr(n) == IF n < 0 THEN "-" \o NatToStr(0 - n) ELSE NatToStr(n)

RECURSIVE RStripSlash(_)
\* url.rstrip("/")
RStripSlash(url) ==
    IF Len(url) > 0 /\ Char(url, Len(url)) = "/"
    THEN RStripSlash(SubSeq(url, 1, Len(url) - 1))
    ELSE url

\* an argument check that lets a timeout of 0 through
InitValidation_ZeroTimeoutAllowed(args) ==
    IF args.url = NoneStr \/ args.url = "" THEN "URL must be a non-empty string"
    ELSE IF args.api_key = NoneStr \/ args.api_key = "" THEN "API key must be a non-empty string"
    ELSE IF ~(StartsWith(args.url, "http://") \/ StartsWith(args.url, "https://"))
    THEN "URL must start with http:// or https://"
    ELSE IF args.timeout < 0 THEN "Timeout must be positive, got " \o IntToStr(args.timeout)
    ELSE IF args.max_retries < 0
    THEN "Max retries must be non-negative, got " \o IntToStr(args.max_retries)
    ELSE ""

\* the argument checks of __init__, in order: the message of the ValueError
\* raised, "" if none is
InitValidation(args) ==
    IF args.url = NoneStr \/ args.url = "" THEN "URL must be a non-empty string"
    ELSE IF args.api_key = NoneStr \/ args.api_key = "" THEN "API key must be a non-empty string"
    ELSE IF ~(StartsWith(args.url, "http://") \/ StartsWith(args.url, "https://"))
    THEN "URL must start with http:// or https://"
    ELSE IF args.timeout <= 0 THEN "Timeout must be positive, got " \o IntToStr(args.timeout)
    ELSE IF args.max_retries < 0
    THEN "Max retries must be non-negative, got " \o IntToStr(args.max_retries)
    ELSE ""

\* the body of _test_connection, given how the read of
\* self.client.misp_instance_version ends
TestConnectionBody(version) ==
    IF version.kind = "raise" /\ IsInstance(version.exc, {"Exception"})
    THEN Raise(Exc("MISPConnectionError", "Failed to connect to MISP",
                   Str(version.exc), version.exc.type))
    ELSE IF version.kind = "raise" THEN version
    ELSE Return(NoneStr)

\* self._test_connection(), decorated with retry_with_backoff(max_attempts=3):
\* versions[k] is how the k-th read of the version ends
TestConnection(versions) ==
    RetryWithBackoff(3, BACKOFF_FACTOR,
                     [k \in DOMAIN versions |-> TestConnectionBody(versions[k])])

\* MISPClient(url, api_key, timeout=, max_retries=) against a platform whose
\* library client is created as platform.client says and whose version reads
\* end as platform.versions says; contacts lists the uses of the platform
MISPClientInit(args, platform) ==
    LET error == InitValidation(args)
        test == TestConnection(platform.versions)
        reads == SelectSeq(test.trace, LAMBDA t : t.op = "call")
    IN
    IF error # ""
    THEN [res |-> Raise(Exc("ValueError", error, "", "")), contacts |-> << >>]
    ELSE IF platform.client.kind = "raise" /\ IsInstance(platform.client.exc, {"Exception"})
    THEN [res |-> Raise(Exc("MISPConnectionError", "Failed to initialize MISP client",
                            Str(platform.client.exc), platform.client.exc.type)),
          contacts |-> << "ExpandedPyMISP" >>]
    ELSE IF platform.client.kind = "raise"
    THEN [res |-> platform.client, contacts |-> << "ExpandedPyMISP" >>]
    ELSE [res |-> IF test.res.kind = "raise" THEN test.res
                  ELSE Return([url |-> RStripSlash(args.url),
                               timeout |-> args.timeout,
                               max_retries |-> args.max_retries]),
          contacts |-> << "ExpandedPyMISP" >>
                       \o [i \in DOMAIN reads |-> "misp_instance_version"]]

\* the arguments the constructor is given
ConstructorArguments ==
    [url : {"https://misp.example.com", "http://misp.local//", "ftp://invalid.com",
            "misp.example.com", "", NoneStr},
     api_key : {"test_key", "", NoneStr},
     timeout : {30, 1, 0, -1},
     max_retries : {3, 0, -1}]

\* how the read of the version can end
VersionOutcomes ==
    { Return("{'version': '2.4.170'}"),
      Return("2.4.170"),
      Raise(Exc("PyMISPError", "MISP server error", "", "")),
      Raise(Exc("RequestException", "Connection refused", "", "")),
      Raise(Exc("KeyboardInterrupt", "", "", "")) }

\* the platform as the constructor meets it: whether the library client can
\* be created, and how a first read of the version ends (later reads succeed)
Platforms ==
    [client : {Return("client"),
               Raise(Exc("PyMISPError", "Unable to connect to MISP", "", "")),
               Raise(Exc("KeyboardInterrupt", "", "", ""))},
     versions : { << v, Return("2.4.170"), Return("2.4.170") >> : v \in VersionOutcomes }]

Construct ==
    /\ construct.pc = "ready"
    /\ LET call == MISPClientInit(construct.args, construct.platform)
       IN  construct' = [construct EXCEPT !.pc = "done", !.result = call.res,
                                          !.contacts = call.contacts]
    /\ UNCHANGED << retry, validation >>
    /\ UNCHANGED << sub_vars, up_vars, csv_vars, cmd_vars, remote_log, sleeps >>

\* the constructor about to be called
InitConstruct ==
    /\ construct \in [pc : {"ready"},
                      args : ConstructorArguments,
                      platform : Platforms,
                      result : {NoResult},
                      contacts : {<< >>}]
    /\ RetryIdle
    /\ ValidationIdle
    /\ remote_log = << >>
    /\ sleeps = << >>
    /\ SubmitIdle
    /\ UploadIdle
    /\ CsvIdle
    /\ CmdIdle

NextConstruct == Construct

SpecConstruct == InitConstruct /\ [][NextConstruct]_vars

-----------------------------------------------------------------------------
(* src/src/csv_processor.py : a call of DDoSEventValidator.validate_row, and a
   second call on the row written from the record it returned *)

\* a column the row does not have
Absent == "<absent>"

\* the row as a dictionary: the keys with a cell
RowOfCells(cells) == [f \in {g \in DOMAIN cells : cells[g] # Absent} |-> cells[f]]

\* rows as csv.DictReader yields them for files with the optional columns
ValidatorRows ==
    { RowOfCells([date |-> d, event_name |-> n, attacker_ips |-> a,
                  annotation_text |-> " Text ", tlp |-> t,
                  destination_ips |-> di, destination_ports |-> dp]) :
        d \in {"2024-01-15", " 2024-01-15 10:30:00 ", "15-01-2024"},
        n \in {"Test DDoS", "  Flood "},
        a \in {"192.168.1.100;192.168.1.101", " ::1 ; 10.0.0.1;", "invalid_ip"},
        t \in {Absent, "", "AMBER ", "purple"},
        di \in {Absent, "", "10.0.0.5; 10.0.0.6"},
        dp \in {Absent, "0443;80", " +8080 ", "70000"} }

RECURSIVE JoinWith(_, _)
\* sep.join(parts)
JoinWith(parts, sep) ==
    IF Len(parts) = 0 THEN ""
    ELSE IF Len(parts) = 1 THEN parts[1]
    ELSE parts[1] \o sep \o JoinWith(Tail(parts), sep)

\* the record written back as a row: event_date under date, the lists joined
\* with ';' (an empty cell for None), the ports in decimal
RowOf(record) ==
    [date |-> record.event_date,
     event_name |-> record.event_name,
     attacker_ips |-> JoinWith(record.attacker_ips, ";"),
     destination_ips |-> JoinWith(record.destination_ips, ";"),
     destination_ports |->
         JoinWith([i \in DOMAIN record.destination_ports |->
                       NatToStr(record.destination_ports[i])], ";"),
     annotation_text |-> record.annotation_text,
     tlp |-> record.tlp]

ValidateOnce ==
    /\ validation.pc = "ready"
    /\ validation' = [validation EXCEPT
                         !.pc = "validated",
                         !.first = ValidateRow(validation.row, validation.row_number)]
    /\ UNCHANGED << retry, construct >>
    /\ UNCHANGED << sub_vars, up_vars, csv_vars, cmd_vars, remote_log, sleeps >>

ValidateAgain ==
    /\ validation.pc = "validated"
    /\ validation.first.kind = "return"
    /\ validation' = [validation EXCEPT
                         !.pc = "revalidated",
                         !.second = ValidateRow(RowOf(validation.first.value),
                                                validation.row_number)]
    /\ UNCHANGED << retry, construct >>
    /\ UNCHANGED << sub_vars, up_vars, csv_vars, cmd_vars, remote_log, sleeps >>

\* validate_row about to be called on a row
InitValidate ==
    /\ validation \in [pc : {"ready"},
                       row : ValidatorRows,
                       row_number : {2, 3},
                       first : {NoResult},
                       second : {NoResult}]
    /\ RetryIdle
    /\ ConstructIdle
    /\ remote_log = << >>
    /\ sleeps = << >>
    /\ SubmitIdle
    /\ UploadIdle
    /\ CsvIdle
    /\ CmdIdle

NextValidate == ValidateOnce \/ ValidateAgain

SpecValidate == InitValidate /\ [][NextValidate]_vars

-----------------------------------------------------------------------------
(* Properties of the Submission Client (SpecSubmit) *)

\* the call binds to the signature and passes the input validation
ValidArguments(kwargs) ==
    /\ BindArguments(kwargs).kind = "return"
    /\ InputValidation(BindArguments(kwargs).value) = ""

\* C1: a submission with valid arguments whose request fails with a transient
\* error on the first and the second attempt and succeeds on the third returns
\* the success result, with no error surfaced and exactly three requests made.
C1_SucceedsOnThirdAttempt ==
    ( /\ sub_pc = "done"
      /\ ValidArguments(sub_kwargs)
      /\ sub_script[1] \in TransientOutcomes
      /\ sub_script[2] \in TransientOutcomes
      /\ sub_script[3] = "ok" )
    => /\ sub_result.res.kind = "return"
       /\ sub_result.res.value.success
       /\ sub_result.res.value.event_id = "1"
       /\ sub_result.requests = 3

\* C2: a submission with valid arguments whose request fails with a transient
\* error on every attempt makes exactly 3 requests and then raises one
\* ConnectionError whose message states "3 attempts" and wraps the last error.
C2_ExhaustedRetriesWrapLastError ==
    ( /\ sub_pc = "done"
      /\ ValidArguments(sub_kwargs)
      /\ \A k \in 1..MAX_ATTEMPTS : sub_script[k] \in TransientOutcomes )
    => /\ sub_result.requests = 3
       /\ sub_result.res.kind = "raise"
       /\ sub_result.res.exc.type = "MISPConnectionError"
       /\ sub_result.res.exc.text = "Failed after 3 attempts"
       /\ sub_result.res.exc.cause = sub_script[3]

\* C10: every tag attached to a record sent to the platform passes the
\* sanitization check, that is, consists of characters of the allowed set only.
C10_SentTagsAreSanitized ==
    \A i \in DOMAIN remote_log :
        \A t \in DOMAIN remote_log[i].event.tags :
            LET tag == remote_log[i].event.tags[t] IN
            /\ SanitizeTag(tag).kind = "return"
            /\ SanitizeTag(tag).value = tag

\* the arguments of the first call, bound to the signature
BoundArguments == BindArguments(sub_kwargs).value

\* the arguments break a rule of the Row Validator, read on the parameters of
\* the client: name, date, addresses, port, text, sharing level
ViolatesRowRule(a) ==
    \/ Strip(a.event_name) = ""
    \/ Len(Strip(a.event_name)) > MAX_EVENT_NAME_LENGTH
    \/ ~ValidateDate(a.event_date)
    \/ Len(a.attacker_ips) = 0
    \/ Len(a.attacker_ips) > MAX_ATTACKER_IPS
    \/ \E i \in DOMAIN a.attacker_ips : ~ValidatorValidateIp(a.attacker_ips[i])
    \/ ~ValidatorValidateIp(a.victim_ip)
    \/ ~(1 <= a.victim_port /\ a.victim_port <= 65535)
    \/ Len(Strip(a.description)) > MAX_DESCRIPTION_LENGTH
    \/ Lower(Strip(a.tlp)) \notin Range(VALID_TLP_LEVELS)

\* C11: the client re-validates with the rules of the Row Validator: a call
\* whose arguments break one of those rules raises ValidationError and makes
\* no request.
C11_ClientRevalidatesRowRules ==
    ( /\ sub_pc = "done"
      /\ BindArguments(sub_kwargs).kind = "return"
      /\ ViolatesRowRule(BoundArguments) )
    => /\ sub_result.res.kind = "raise"
       /\ sub_result.res.exc.type = "MISPValidationError"
       /\ sub_result.requests = 0
       /\ remote_log = << >>

\* C12: a call whose arguments fail the input validation runs the function
\* body exactly once, makes no request and no backoff sleep, and raises the
\* ValidationError itself, not a ConnectionError.
C12_ValidationFailureIsNotRetried ==
    ( /\ sub_pc # "ready"
      /\ BindArguments(sub_kwargs).kind = "return"
      /\ InputValidation(BoundArguments) # "" )
    => /\ sub_result.invocations = 1
       /\ sub_result.requests = 0
       /\ sub_result.res.kind = "raise"
       /\ sub_result.res.exc.type = "MISPValidationError"
       /\ sub_result.res.exc.text = InputValidation(BoundArguments)
       /\ remote_log = << >>
       /\ sleeps = << >>

\* an invalid attacker address was rejected although the platform was down
C12_Witness ==
    /\ sub_pc = "done"
    /\ sub_kwargs = KwBadAttackerIp
    /\ sub_script[1] = "RequestException"
    /\ sub_result.res.kind = "raise"
    /\ sub_result.res.exc.text = "Invalid attacker IP address"
    /\ sub_result.invocations = 1

\* C18: a client constructed with max_retries = N attempts a request that
\* keeps failing transiently N times.
C18_AttemptsFollowConfiguredMaximum ==
    ( /\ sub_pc = "done"
      /\ ValidArguments(sub_kwargs)
      /\ \A k \in 1..MAX_ATTEMPTS : sub_script[k] \in TransientOutcomes )
    => sub_result.requests = max_retries

\* the tags the record of a call with sharing level tlp must carry
ExpectedTags(tlp) ==
    << "tlp:" \o tlp,
       "information-security-indicators:incident-type=\"ddos\"",
       "misp-event-type:incident",
       "mitre-attack-pattern:T1498",
       "misp-galaxy:mitre-attack-pattern=\"Network Denial of Service - T1498\"",
       "workflow:state=new" >>

\* C19: every record sent carries exactly the sharing-level tag of the tlp
\* argument lowercased, the incident-type tag, the event-type tag, the two
\* T1498 tags and workflow:state=new; two calls that differ only in
\* workflow_state send the same tags.
C19_TagsDependOnTlpOnly ==
    /\ \A i \in DOMAIN remote_log :
          /\ remote_log[i].event.tags = ExpectedTags(Lower(BoundArguments.tlp))
          /\ Cardinality({ t \in DOMAIN remote_log[i].event.tags :
                              StartsWith(remote_log[i].event.tags[t], "tlp:") }) = 1
    /\ (sub_pc = "again" /\ sub_result.requests > 0 /\ sub_again.requests > 0) =>
          remote_log[1].event.tags = remote_log[sub_again.first + 1].event.tags

\* a call with workflow_state "complete" and one with "in-progress" both
\* created a record
C19_Witness ==
    /\ sub_pc = "again"
    /\ sub_kwargs = KwFull
    /\ sub_again.workflow_state = "in-progress"
    /\ Len(remote_log) = 2
    /\ remote_log[1].answer = "ok"
    /\ remote_log[2].answer = "ok"
    /\ remote_log[2].event.tags[1] = "tlp:amber"

-----------------------------------------------------------------------------
(* Properties of the Batch Orchestrator (SpecUpload) *)

\* the indexes of the records for which the client has been called, in order
CalledIndexes == [i \in DOMAIN client_calls |-> client_calls[i].index]

\* the call raised an error, as opposed to a user interrupt
RaisedError(c) == c.raised # "" /\ "Exception" \in ExceptionClasses(c.raised)

\* the calls of the client that returned, and those that raised
ReturnedCalls == SelectSeq(client_calls, LAMBDA c : c.raised = "")

RaisedCalls == SelectSeq(client_calls, LAMBDA c : c.raised # "")

\* successful and failed hold, in input order, the records whose call returned
\* and the records whose call raised
ListsPartitionCalls ==
    /\ Len(successful) = Len(ReturnedCalls)
    /\ \A j \in DOMAIN successful :
          successful[j].event_name =
              EventNameOf(events[ReturnedCalls[j].index], ReturnedCalls[j].index)
    /\ Len(failed) = Len(RaisedCalls)
    /\ \A j \in DOMAIN failed :
          /\ failed[j].event_index = RaisedCalls[j].index
          /\ failed[j].event_name =
                EventNameOf(events[RaisedCalls[j].index], RaisedCalls[j].index)

\* C3: with continue_on_error the client is called exactly once for every
\* record, in input order, whatever the earlier outcomes; the returned total is
\* the number of records, successful and failed partition the records in input
\* order, and an empty input returns total 0 with both lists empty and no call.
C3_ContinueSubmitsEveryRecord ==
    continue_on_error =>
        /\ CalledIndexes = [i \in 1..up_idx |-> i]
        /\ up_pc = "returned" =>
              /\ CalledIndexes = [i \in 1..Len(events) |-> i]
              /\ up_result.value.total = Len(events)
              /\ Len(up_result.value.successful) + Len(up_result.value.failed)
                     = up_result.value.total
              /\ up_result.value.successful = successful
              /\ up_result.value.failed = failed
              /\ ListsPartitionCalls
              /\ Len(events) = 0 =>
                    /\ up_result.value.total = 0
                    /\ up_result.value.successful = << >>
                    /\ up_result.value.failed = << >>
                    /\ remote_log = << >>

\* record 2 of 3 failed, records 1 and 3 were created
C3_Witness ==
    /\ continue_on_error
    /\ up_pc = "returned"
    /\ Len(events) = 3
    /\ Len(up_result.value.successful) = 2
    /\ Len(up_result.value.failed) = 1
    /\ up_result.value.failed[1].event_index = 2
    /\ client_calls[2].raised = "MISPClientError"

\* C4: without continue_on_error the loop stops at the first record whose
\* submission fails: no later record is submitted, failed holds that record
\* alone with its 1-based index, successful holds the records before it.
C4_StopsAtFirstFailure ==
    (~continue_on_error /\ Len(failed) > 0) =>
        /\ Len(failed) = 1
        /\ failed[1].event_index = Len(client_calls)
        /\ CalledIndexes = [i \in 1..failed[1].event_index |-> i]
        /\ client_calls[failed[1].event_index].raised # ""
        /\ Len(successful) = failed[1].event_index - 1
        /\ \A j \in DOMAIN successful :
              /\ client_calls[j].raised = ""
              /\ successful[j].event_name = EventNameOf(events[j], j)
        /\ up_pc \in {"break", "returned"}
        /\ up_pc = "returned" =>
              /\ up_result.value.failed = failed
              /\ up_result.value.successful = successful

\* record 2 of 3 failed and record 3 was never submitted
C4_Witness ==
    /\ ~continue_on_error
    /\ up_pc = "returned"
    /\ Len(events) = 3
    /\ Len(client_calls) = 2
    /\ up_result.value.failed[1].event_index = 2
    /\ Len(up_result.value.successful) = 1

\* C5: whatever error the client raises for a record (validation, connection,
\* generic client error or any other exception), upload_events does not raise
\* it: failed gets an entry with the record's name, index and the error text.
C5_SubmissionFailuresAreData ==
    /\ \A i \in DOMAIN client_calls :
          RaisedError(client_calls[i]) =>
              \E j \in DOMAIN failed :
                  /\ failed[j].event_index = client_calls[i].index
                  /\ failed[j].event_name = EventNameOf(events[i], i)
                  /\ failed[j].error # ""
    /\ up_pc = "raised" => "Exception" \notin ExceptionClasses(up_result.exc.type)
    /\ Len(failed) = Len(SelectSeq(client_calls, RaisedError))

\* a validation error, a connection error, a client error and a TypeError have
\* each been recorded, and upload_events returned
C5_Witness ==
    /\ up_pc = "returned"
    /\ Len(events) = 3
    /\ Len(up_result.value.failed) = 3
    /\ client_calls[1].raised = "TypeError"
    /\ client_calls[2].raised = "MISPValidationError"
    /\ client_calls[3].raised = "MISPConnectionError"

\* C6: every record the Row Validator returns can be consumed by the client:
\* when the platform accepts every request, the record ends in successful and
\* exactly one request is made for it.
C6_ValidatedRecordsAreAccepted ==
    \A i \in DOMAIN client_calls :
        ( /\ events[i] \in ValidatorRecords
          /\ \A k \in 1..MAX_ATTEMPTS : client_calls[i].script[k] = "ok" )
        => /\ client_calls[i].raised = ""
           /\ client_calls[i].requests = 1

-----------------------------------------------------------------------------
(* Properties of the Batch Parser (SpecCsv) *)

\* the header of the file and its data lines, after the comment filter
FileHeader == Split(ContentLines(file)[1], ",")

FileDataLines == Tail(ContentLines(file))

\* the path meets every precondition on the file
PathAccepted ==
    /\ file_path.exists
    /\ file_path.is_file
    /\ Lower(file_path.suffix) = ".csv"
    /\ file_path.st_size > 0
    /\ file_path.st_size <= MAX_FILE_SIZE_BYTES

\* the file passed the path and header checks, so that its rows are read
HeaderAccepted ==
    /\ PathAccepted
    /\ Utf8Decodes(file)
    /\ Len(ContentLines(file)) > 0
    /\ MissingColumns(FileHeader) = << >>

\* what the Row Validator says of the k-th data line, whose row number is k + 1
RowOutcome(k) == ValidateRow(DictRow(FileHeader, FileDataLines[k]), k + 1)

\* the rows validated so far are the first data rows, numbered from 2
ValidatedInOrder == validated = [k \in 1..Len(validated) |-> k + 1]

\* valid_events and invalid_rows hold, in file order, one record for every row
\* validated so far that passes and one (row number, message) pair for every
\* one that fails
ListsPartitionRows ==
    LET done == 1..Len(validated)
        passed == SelectSeq([k \in done |-> k], LAMBDA k : RowOutcome(k).kind = "return")
        rejected == SelectSeq([k \in done |-> k], LAMBDA k : RowOutcome(k).kind = "raise")
    IN  /\ valid_events = [j \in DOMAIN passed |-> RowOutcome(passed[j]).value]
        /\ invalid_rows = [j \in DOMAIN rejected |->
                               << rejected[j] + 1, Str(RowOutcome(rejected[j]).exc) >>]

\* C7: with skip_invalid every data row is validated; a row that fails gives
\* one (row_number, message) entry, a row that passes one record, both lists in
\* file order; parsing continues after an invalid row and on return
\* total_rows = len(valid_events) + len(invalid_rows).
C7_SkipInvalidValidatesEveryRow ==
    (skip_invalid /\ HeaderAccepted) =>
        /\ csv_pc # "raised"
        /\ ValidatedInOrder
        /\ ListsPartitionRows
        /\ csv_pc = "returned" =>
              /\ Len(validated) = Len(FileDataLines)
              /\ csv_result.value.valid_events = valid_events
              /\ csv_result.value.invalid_rows = invalid_rows
              /\ csv_result.value.total_rows
                     = Len(csv_result.value.valid_events) + Len(csv_result.value.invalid_rows)

\* C8: without skip_invalid the parse aborts at the first data row that fails
\* validation: it raises that row's validation error, returns no result and
\* validates no later row; whenever it returns, invalid_rows is empty.
C8_FailFastAbortsAtFirstInvalidRow ==
    (~skip_invalid /\ HeaderAccepted) =>
        /\ ValidatedInOrder
        /\ \A k \in 1..(Len(validated) - 1) : RowOutcome(k).kind = "return"
        /\ (Len(validated) > 0 /\ RowOutcome(Len(validated)).kind = "raise") =>
              /\ csv_pc = "raised"
              /\ csv_result.kind = "raise"
              /\ csv_result.exc.type = "CSVValidationError"
              /\ csv_result.exc = RowOutcome(Len(validated)).exc
        /\ csv_pc = "returned" =>
              /\ csv_result.value.invalid_rows = << >>
              /\ Len(csv_result.value.valid_events) = Len(FileDataLines)

C16_RowErrorsAreCollected ==
    HeaderAccepted =>
        \A j \in DOMAIN invalid_rows :
            LET n == invalid_rows[j][1]
                row == DictRow(FileHeader, FileDataLines[n - 1])
                message == invalid_rows[j][2]
            IN  (\A f \in DOMAIN row : row[f] # NoneStr) =>
                    \A e \in Range(MissingRequired(row, n)) \cup Range(FieldErrors(row, n)) :
                        Contains(message, e)

\* C17: a file with a byte sequence that is not UTF-8 fails with an error of
\* a kind of its own, which is neither the kind of a row validation error nor
\* the kind of a schema error (both are CSVValidationError).
C17_EncodingErrorIsDistinctKind ==
    (csv_pc = "raised" /\ Len(file) > 0 /\ ~Utf8Decodes(file)) =>
        /\ csv_result.exc.cause = "UnicodeDecodeError"
        /\ csv_result.exc.type # "CSVValidationError"

-----------------------------------------------------------------------------
(* Properties of the bulk command (SpecBulk) *)

\* C13: a user interrupt that arrives in the upload loop after records have
\* been submitted is caught, and the outcomes of those records are reported:
\* the results shown to the user hold the successful and failed entries
\* accumulated so far.
C13_InterruptReportsPartialResult ==
    (cmd_pc = "exited" /\ interrupted = "upload" /\ Len(client_calls) > 0) =>
        /\ Len(displayed) = 1
        /\ displayed[1].successful = successful
        /\ displayed[1].failed = failed

\* C14: the bulk command exits with status 130 whenever the user interrupts
\* it: during client construction, during CSV validation, during the upload.
C14_InterruptExits130 ==
    (cmd_pc = "exited" /\ interrupted # "") => exit_code = 130

\* every submitted record was created or, in a dry run, validation gave a
\* result with at least one valid event
FullSuccess ==
    /\ csv_pc = "returned"
    /\ Len(valid_events) > 0
    /\ \/ options.dry_run
       \/ /\ up_pc = "returned"
          /\ Len(failed) = 0
          /\ Len(successful) = Len(events)

C20_NoContinueOnErrorIsAccepted ==
    ("--no-continue-on-error" \in argv /\ cmd_pc # "parse") =>
        /\ exit_code # USAGE_ERROR
        /\ ~options.continue_on_error
        /\ up_pc # "idle" => ~continue_on_error


-----------------------------------------------------------------------------
(* Further properties of the bulk command (SpecBulk) *)

\* C21: in run every row is validated before upload begins: no record is
\* submitted until process_csv has finished the whole file, and when
\* process_csv raises or returns no valid event, no submission is made.
C21_AllRowsValidatedBeforeUpload ==
    /\ (up_pc # "idle" \/ client_calls # << >> \/ remote_log # << >>) =>
          /\ csv_pc = "returned"
          /\ Len(validated) = Len(FileDataLines)
          /\ Len(csv_result.value.valid_events) > 0
    /\ (csv_pc = "raised" \/ (csv_pc = "returned" /\ valid_events = << >>)) =>
          /\ up_pc = "idle"
          /\ client_calls = << >>
          /\ remote_log = << >>

\* a record is handed to the client after both rows of the file were
\* validated, one of them invalid and skipped
C21_Witness ==
    /\ cmd_pc = "upload"
    /\ Len(client_calls) > 0
    /\ Len(validated) = 2
    /\ Len(invalid_rows) = 1

-----------------------------------------------------------------------------
(* Further properties of the Batch Parser (SpecCsv) *)

\* the preconditions on the file that the path breaks, by the words that name
\* them in the messages
BrokenConstraints ==
    (IF ~file_path.exists THEN {"File not found"} ELSE {})
    \cup (IF file_path.exists /\ ~file_path.is_file THEN {"Not a file"} ELSE {})
    \cup (IF Lower(file_path.suffix) # ".csv" THEN {"Not a CSV file"} ELSE {})
    \cup (IF file_path.is_file /\ file_path.st_size = 0 THEN {"File is empty"} ELSE {})
    \cup (IF file_path.is_file /\ file_path.st_size > MAX_FILE_SIZE_BYTES
          THEN {"File too large"} ELSE {})

FileErrorTypes == {"FileNotFoundError", "ValueError"}

\* C22: process_csv enforces the preconditions on the file before it parses a
\* line or validates a row: a path that does not exist, is not a regular
\* file, does not end in .csv, has size 0 or a size above the maximum fails
\* with a file error whose message names a constraint it breaks; a file of
\* exactly the maximum size is not turned away.
C22_FilePreconditionsComeFirst ==
    csv_pc \in {"rows", "returned", "raised"} =>
        /\ BrokenConstraints # {} =>
              /\ csv_pc = "raised"
              /\ csv_result.exc.type \in FileErrorTypes
              /\ csv_result.exc.text \in BrokenConstraints
              /\ reader.fieldnames = << >>
              /\ validated = << >>
              /\ total_rows = 0
        /\ BrokenConstraints = {} =>
              ~(csv_pc = "raised" /\ csv_result.exc.type \in FileErrorTypes)

\* a file of exactly the largest size is parsed to its end
C22_Witness ==
    /\ csv_pc = "returned"
    /\ file_path.st_size = MAX_FILE_SIZE_BYTES
    /\ Lower(file_path.suffix) = ".csv"
    /\ total_rows = 1

\* the data rows of the file as the reader of the file counts them: its lines
\* that are neither blank nor comments, without the first of them
NumberedRows ==
    LET kept == SelectSeq(file, LAMBDA line :
                    LET stripped == Strip(line)
                    IN  stripped # "" /\ ~StartsWith(stripped, "#"))
    IN  IF Len(kept) = 0 THEN kept ELSE Tail(kept)

\* C23: row numbers count from 1 with the header as row 1: the k-th data row
\* is validated and reported with number k + 1, and blank lines and lines
\* that begin with '#' are dropped before the numbering.
C23_RowNumbersCountFromHeader ==
    csv_pc \in {"rows", "returned", "raised"} =>
        /\ validated = [k \in 1..Len(validated) |-> k + 1]
        /\ Len(validated) <= Len(NumberedRows)
        /\ csv_pc = "returned" => Len(validated) = Len(NumberedRows)
        /\ \A j \in DOMAIN invalid_rows :
              LET n == invalid_rows[j][1] IN
              /\ n - 1 \in DOMAIN validated
              /\ StartsWith(invalid_rows[j][2], "Row " \o NatToStr(n) \o ": ")
              /\ invalid_rows[j][2]
                     = Str(ValidateRow(DictRow(reader.fieldnames, NumberedRows[n - 1]), n).exc)

\* the invalid row on the seventh line of a file with blank and comment lines
\* is reported as row 3
C23_Witness ==
    /\ csv_pc = "returned"
    /\ Len(file) = 9
    /\ file[7] = "2024-01-15,Test,invalid_ip,Text,green"
    /\ validated = << 2, 3, 4 >>
    /\ Len(invalid_rows) = 1
    /\ invalid_rows[1][1] = 3

\* C24: a valid row in the victim schema of the test suite is accepted:
\* process_csv on a file with the header date, event_name, attack_type,
\* attacker_ips, victim_ip, victim_port, description and one such row returns
\* total_rows = 1, one valid event and no invalid row, and the record holds
\* the name, the list of addresses and the port as an integer.
C24_VictimSchemaRowIsAccepted ==
    (file \in VictimSchemaFiles /\ csv_pc \in {"returned", "raised"}) =>
        /\ csv_pc = "returned"
        /\ total_rows = 1
        /\ Len(valid_events) = 1
        /\ invalid_rows = << >>
        /\ valid_events[1].event_name = "Test DDoS"
        /\ valid_events[1].attacker_ips = << "192.168.1.100" >>
        /\ "victim_port" \in DOMAIN valid_events[1]
        /\ valid_events[1].victim_port = 443

\* C29: a data row with fewer cells than the header is a row-level validation
\* failure: with skip_invalid the row is recorded in invalid_rows and the
\* parse goes on instead of aborting.
C29_ShortRowIsRowFailure ==
    (skip_invalid /\ HeaderAccepted) =>
        \A k \in DOMAIN validated :
            Len(Split(FileDataLines[k], ",")) < Len(FileHeader) =>
                /\ csv_pc # "raised"
                /\ \E j \in DOMAIN invalid_rows : invalid_rows[j][1] = k + 1

\* the number of lines a reader that goes line by line holds at a time
StreamingWindow == 1

\* C30: process_csv goes through the file line by line without holding it
\* whole: when the first data row is about to be validated the last line of
\* the file has not been read, and the lines held are no more than a constant.
C30_ProcessesLineByLine ==
    (csv_pc = "rows" /\ validated = << >> /\ Len(FileDataLines) >= 2) =>
        /\ Len(reader.lines) < Len(FileDataLines)
        /\ Len(reader.lines) <= StreamingWindow

-----------------------------------------------------------------------------
(* Properties of the Row Validator alone (SpecValidate) *)

\* C25: row validation is idempotent on the records it returns: writing a
\* returned record back as a row (lists joined with ';', event_date under
\* date) and validating that row again succeeds with an equal record.
C25_ValidationIsIdempotent ==
    validation.pc = "revalidated" =>
        /\ validation.second.kind = "return"
        /\ validation.second.value = validation.first.value

\* a row that is not in normal form (spaces, upper case, a port with a
\* leading zero) and its record validated again
C25_Witness ==
    /\ validation.pc = "revalidated"
    /\ validation.row["attacker_ips"] = " ::1 ; 10.0.0.1;"
    /\ "tlp" \in DOMAIN validation.row
    /\ validation.row["tlp"] = "AMBER "
    /\ "destination_ports" \in DOMAIN validation.row
    /\ validation.row["destination_ports"] = "0443;80"
    /\ validation.row["date"] = " 2024-01-15 10:30:00 "
    /\ validation.first.value.destination_ports = << 443, 80 >>
    /\ validation.second.kind = "return"

-----------------------------------------------------------------------------
(* Properties of the constructor of the Submission Client (SpecConstruct) *)

\* C26: the constructor checks its arguments before any contact with the
\* platform: a URL without http:// or https://, an empty API key, a timeout
\* that is not positive or a negative max_retries raises ValueError with the
\* library client not created and the connection test not run; a constructor
\* that returns has run the connection test, which succeeded.
C26_ArgumentsAreCheckedBeforeContact ==
    construct.pc = "done" =>
        LET a == construct.args
            rejected == \/ ~(StartsWith(a.url, "http://") \/ StartsWith(a.url, "https://"))
                        \/ a.api_key = ""
                        \/ a.timeout <= 0
                        \/ a.max_retries < 0
            n == Len(construct.contacts)
        IN  /\ rejected =>
                  /\ construct.result.kind = "raise"
                  /\ construct.result.exc.type = "ValueError"
                  /\ construct.contacts = << >>
            /\ construct.result.kind = "return" =>
                  /\ n >= 2
                  /\ construct.contacts[1] = "ExpandedPyMISP"
                  /\ construct.contacts[n] = "misp_instance_version"
                  /\ construct.platform.client.kind = "return"
                  /\ construct.platform.versions[n - 1].kind = "return"

\* a constructor given the smallest timeout and max_retries it accepts returns
\* after one read of the version
C26_Witness ==
    /\ construct.pc = "done"
    /\ construct.result.kind = "return"
    /\ construct.args.timeout = 1
    /\ construct.args.max_retries = 0
    /\ construct.contacts = << "ExpandedPyMISP", "misp_instance_version" >>

-----------------------------------------------------------------------------
(* Properties of the retry wrapper (SpecRetry) *)

\* the first invocation that does not end in a retryable failure, or
\* max_attempts + 1 if every invocation allowed does
FirstFinal(r) ==
    LET final == { k \in 1..r.max_attempts :
                     \/ r.outcomes[k].kind = "return"
                     \/ ~IsInstance(r.outcomes[k].exc, RETRY_EXCEPTIONS) }
    IN  IF final = {} THEN r.max_attempts + 1
        ELSE CHOOSE k \in final : \A j \in final : k <= j

\* C27: a function wrapped by retry_with_backoff(max_attempts=N,
\* backoff_factor=b), N >= 1, is invoked at most N times and never after its
\* first success; after its k-th retryable failure, k < N, the wrapper sleeps
\* b**k before the next invocation; after the N-th it does not sleep and
\* raises MISPConnectionError "Failed after N attempts" around the last
\* error; an error that is not retryable propagates unchanged at once.
C27_RetryWrapperContract ==
    (retry.pc = "done" /\ retry.max_attempts >= 1) =>
        LET N == retry.max_attempts
            b == retry.backoff_factor
            first == FirstFinal(retry)
            m == IF first <= N THEN first ELSE N
            last == retry.outcomes[N].exc
        IN  /\ Len(retry.trace) = 2 * m - 1
            /\ \A k \in 1..m : retry.trace[2 * k - 1] = [op |-> "call", n |-> k]
            /\ \A k \in 1..(m - 1) :
                  retry.trace[2 * k] = [op |-> "sleep", seconds |-> Power(b, k)]
            /\ first <= N => retry.result = retry.outcomes[first]
            /\ first > N =>
                  /\ retry.result.kind = "raise"
                  /\ retry.result.exc.type = "MISPConnectionError"
                  /\ retry.result.exc.text = "Failed after " \o NatToStr(N) \o " attempts"
                  /\ retry.result.exc.inner = Str(last)
                  /\ retry.result.exc.cause = last.type

\* three retryable failures with factor 3: sleeps of 3 and 9, no third sleep,
\* and the wrapping error
C27_Witness ==
    /\ retry.pc = "done"
    /\ retry.max_attempts = 3
    /\ retry.backoff_factor = 3
    /\ Len(retry.trace) = 5
    /\ retry.trace[2].seconds = 3
    /\ retry.trace[4].seconds = 9
    /\ retry.result.kind = "raise"
    /\ retry.result.exc.type = "MISPConnectionError"

-----------------------------------------------------------------------------
(* A further property of the Submission Client (SpecSubmit) *)

\* the answers of the platform that the call has met
AnswersMet == { remote_log[i].answer : i \in DOMAIN remote_log }

\* C28: every failure of create_ddos_event surfaces as one of three typed
\* errors: MISPValidationError when an argument is rejected,
\* MISPConnectionError when the request fails with a RequestException or an
\* error of the platform library, MISPClientError for any other failure,
\* which is not retried; no other type of exception leaves the call.
C28_FailuresAreTyped ==
    (sub_pc = "done" /\ sub_result.res.kind = "raise" /\ "KeyboardInterrupt" \notin AnswersMet) =>
        LET type == sub_result.res.exc.type IN
        /\ type \in {"MISPValidationError", "MISPConnectionError", "MISPClientError"}
        /\ (sub_result.requests = 0) = (type = "MISPValidationError")
        /\ (AnswersMet \cap TransientOutcomes # {}) => type = "MISPConnectionError"
        /\ ("AttributeError" \in AnswersMet) =>
              /\ type = "MISPClientError"
              /\ sub_result.invocations = 1

====
